---- MODULE Spec2Model ----
(***************************************************************************)
(* Real-time image sync: the client's segment-capture logic                *)
(* (ImageViewerScreen), the three realtime adapters (Socket.io, MQTT,      *)
(* WebRTC data channel) and the Socket.io relay (server/index.js).         *)
(*                                                                         *)
(* JavaScript is single-threaded: a handler runs without interruption up   *)
(* to its next `await` (or to its end).  Every action below is one such    *)
(* uninterrupted piece; an async handler that awaits is a record in a pool *)
(* of suspended handlers, and carries the locals it captured.              *)
(***************************************************************************)
EXTENDS Integers, Sequences, FiniteSets, Bags, TLC

\* ------------------------------------------------------------------------
\* Bounds
\* ------------------------------------------------------------------------
MaxIndex == 2
MaxDeliveries == 4
MaxEnds == 1
MaxSuspended == 2
MaxInflight == 1

NULL == "null"
\* signedUrl === undefined (the signed references are numbers here)
UNDEF == -1
\* previousRef.current === null (a record, so that it compares with records)
NullRef == [imageIndex |-> -1, signedUrl |-> UNDEF]

Indices == 0..MaxIndex
\* the signed reference of image i
SignedUrlOf(i) == i + 100

\* ------------------------------------------------------------------------
\* State of the client screen (ImageViewerScreen)
\* ------------------------------------------------------------------------
VARIABLES
  recorderAdapter,       \* "stub" or "real": what getRecordingAdapter() returns
  passesSignedUrl,       \* whether onUpdate is called with its third argument
  previousRef,           \* NullRef or [imageIndex, signedUrl]
  recordingStartedRef,   \* BOOLEAN
  sentImageIndicesRef,   \* set of image indices
  handlers,              \* bag of suspended onUpdate / onEnd invocations
  inflight,              \* bag of submitSegment promises not yet settled
  log,                   \* history: capture-begin and flush actions, in order
  delivered,             \* history: indices delivered since the last session end
  deliveries,            \* history: number of image-update deliveries
  atEnd,                 \* history: `delivered` when session n ended
  ended                  \* history: number of session-end events delivered

capVars == <<recorderAdapter, passesSignedUrl, previousRef, recordingStartedRef,
             sentImageIndicesRef, handlers, inflight, log, delivered,
             deliveries, atEnd, ended>>


\* state of the relay (server/index.js), see below
VARIABLES
  connections,        \* number of connections accepted so far (ids 1..connections)
  sockets,            \* io.sockets.sockets: ids of the live connections
  socketProps,        \* socket.userId / socket.role / socket.package, per id
  socketToUser,       \* socketId -> info, NoInfo when absent
  onlineClients,      \* set of userIds
  onlineEvaluators,   \* set of userIds
  evaluatorSessions,  \* evaluatorId -> session record, NoSession when absent
  starts,             \* start_session events handled (the Date.now() of sessionId)
  relayLast,          \* history: the event handled last
  emitted,            \* history: what the last handler emitted, and to whom
  imageOrigin,        \* history: per connection, the connection whose
                      \* image_update was forwarded to it last
  pairing             \* history: per evaluator, the client it started a
                      \* session with and has not ended it with, and where
                      \* that client is now

relayVars == <<connections, sockets, socketProps, socketToUser, onlineClients,
               onlineEvaluators, evaluatorSessions, starts, relayLast, emitted,
               imageOrigin, pairing>>

\* state of one SocketIoRealtimeService and of its connection, see below
VARIABLES
  sio,       \* the fields of the service object
  sioNet,    \* its connection: events in flight, and the relay's end of it
  sioObs     \* history: calls made, promises pending, callbacks invoked

sioVars == <<sio, sioNet, sioObs>>

\* state of one WebRtcRealtimeService and of what it works with, see below
VARIABLES
  rtc,       \* the fields of the service object
  rtcEnv,    \* peer connections, data channels, promise chains, timers
  rtcObs     \* history: calls made, signals received, what the last step sent

rtcVars == <<rtc, rtcEnv, rtcObs>>

\* state of the segment endpoint of the server, see below
VARIABLES
  storedSegmentsByKey,  \* key -> segment record
  recordings,           \* the files in RECORDINGS_DIR
  segLast               \* history: requests handled, the last one and its answer

segVars == <<storedSegmentsByKey, recordings, segLast>>

\* state of the presence and client-list endpoints of the server, see below
VARIABLES
  presenceMap,   \* userId -> presence entry, NoEntry when absent
  clock,         \* Date.now() of the server, and the times it was advanced
  clientsLast    \* history: the last GET /api/clients and its answer

presVars == <<presenceMap, clock, clientsLast>>

\* the latency fields of the metrics of one adapter, see below
VARIABLES
  latency,   \* lastLatencyMs, avgLatencyMs, minLatencyMs, maxLatencyMs, sampleCount
  acks       \* history: the acks a latency was recorded from, in their order

latVars == <<latency, acks>>

\* state of the WebSocket SocketService and of what it works with, see below
VARIABLES
  ws,       \* the fields of the service object
  wsEnv,    \* the WebSockets it created and the timers it armed
  wsObs     \* history: the step taken last, and what the caller asked for

wsVars == <<ws, wsEnv, wsObs>>

\* state of the MQTT adapters (one MqttRealtimeService per user) and of the
\* broker between them, see below
VARIABLES
  mqtt,      \* userId -> the fields of that user's service object
  broker,    \* the messages published and not yet delivered for the last time
  mqttObs    \* history: the message handled last, and the acks published for it

mqttVars == <<mqtt, broker, mqttObs>>

vars == <<capVars, relayVars, sioVars, rtcVars, segVars, presVars, latVars,
          wsVars, mqttVars>>

\* what the steps of one component leave alone
notCapture == <<relayVars, sioVars, rtcVars, segVars, presVars, latVars, wsVars, mqttVars>>
notRelay == <<capVars, sioVars, rtcVars, segVars, presVars, latVars, wsVars, mqttVars>>
notSocketIo == <<capVars, relayVars, rtcVars, segVars, presVars, latVars, wsVars, mqttVars>>
notWebRtc == <<capVars, relayVars, sioVars, segVars, presVars, latVars, wsVars, mqttVars>>
notSegments == <<capVars, relayVars, sioVars, rtcVars, presVars, latVars, wsVars, mqttVars>>
notPresence == <<capVars, relayVars, sioVars, rtcVars, segVars, latVars, wsVars, mqttVars>>
notLatency == <<capVars, relayVars, sioVars, rtcVars, segVars, presVars, wsVars, mqttVars>>
notWebSocket == <<capVars, relayVars, sioVars, rtcVars, segVars, presVars, latVars,
                 mqttVars>>
notMqtt == <<capVars, relayVars, sioVars, rtcVars, segVars, presVars, latVars, wsVars>>

One(e) == SetToBag({e})

CaptureInit ==
  /\ recorderAdapter = "stub"
  /\ passesSignedUrl = FALSE
  /\ previousRef = NullRef
  /\ recordingStartedRef = FALSE
  /\ sentImageIndicesRef = {}
  /\ handlers = EmptyBag
  /\ inflight = EmptyBag
  /\ log = <<>>
  /\ delivered = <<>>
  /\ deliveries = 0
  /\ atEnd = <<>>
  /\ ended = 0

\* setRecordingAdapter(getRealRecordingAdapter()) at app init: from then on
\* getRecordingAdapter() returns the real adapter instead of the stub
setRecordingAdapter ==
  /\ deliveries = 0 /\ ended = 0
  /\ recorderAdapter = "stub"
  /\ recorderAdapter' = "real"
  /\ UNCHANGED <<passesSignedUrl, previousRef, recordingStartedRef,
                 sentImageIndicesRef, handlers, inflight, log, delivered,
                 deliveries, atEnd, ended>>
  /\ UNCHANGED notCapture

\* the screen is served by a transport that hands the third argument
\* (signedUrl) of IRealtimeService.onImageUpdate to the callback
UseSignedUrls ==
  /\ deliveries = 0 /\ ended = 0
  /\ ~passesSignedUrl
  /\ passesSignedUrl' = TRUE
  /\ UNCHANGED <<recorderAdapter, previousRef, recordingStartedRef,
                 sentImageIndicesRef, handlers, inflight, log, delivered,
                 deliveries, atEnd, ended>>
  /\ UNCHANGED notCapture

\* log entries
Begin(h) ==
  [op |-> "begin", imageIndex |-> h.index, by |-> h.kind,
   session |-> h.session, repeat |-> h.repeat]
Flush(h) ==
  [op |-> "flush", imageIndex |-> h.prev.imageIndex, by |-> h.kind,
   session |-> h.session, repeat |-> h.repeat]

\* recorder.stopRecording().catch(() => null): the stub adapter yields null,
\* the real adapter the recorded audio
StopRecordingResult == IF recorderAdapter = "stub" THEN NULL ELSE "audio"

\* the segment handed to submitSegment for prev
Segment(prev, by) ==
  [imageIndex |-> prev.imageIndex, signedUrl |-> prev.signedUrl,
   audio |-> StopRecordingResult, by |-> by]

\* the condition as it would be without the comparison of the indices
FlushConditionWhenActive(prev, index) ==
  /\ prev # NullRef
  /\ recordingStartedRef

\* prev !== null && recordingStartedRef.current && prev.imageIndex !== index
FlushCondition(prev, index) ==
  /\ prev # NullRef
  /\ recordingStartedRef
  /\ prev.imageIndex # index

\* const isNewImage = prev === null || prev.imageIndex !== index
IsNewImage(prev, index) == prev = NullRef \/ prev.imageIndex # index

\* the delivery repeats the index of the one immediately before it
IsRepeat(index) == delivered # <<>> /\ delivered[Len(delivered)] = index

Delivered(index) ==
  /\ deliveries < MaxDeliveries
  /\ deliveries' = deliveries + 1
  /\ delivered' = Append(delivered, index)

\* onUpdate, from its call to its first await (or to its end when it awaits
\* nothing: a repeat of the previous index)
OnUpdate(index) ==
  LET prev == previousRef
      url == IF passesSignedUrl THEN SignedUrlOf(index) ELSE UNDEF
      h(pc) == [kind |-> "update", pc |-> pc, prev |-> prev,
                index |-> index, url |-> url, session |-> ended,
                repeat |-> IsRepeat(index)]
  IN
  /\ Delivered(index)
  /\ IF FlushCondition(prev, index)
       THEN \* await recorder.stopRecording()
            /\ BagCardinality(handlers) < MaxSuspended
            /\ handlers' = handlers (+) One(h("stop"))
            /\ UNCHANGED <<previousRef, recordingStartedRef, log>>
       ELSE IF IsNewImage(prev, index)
       THEN \* recordingStartedRef.current = true; await recorder.startRecording()
            /\ BagCardinality(handlers) < MaxSuspended
            /\ recordingStartedRef' = TRUE
            /\ log' = Append(log, Begin(h("start")))
            /\ handlers' = handlers (+) One(h("start"))
            /\ UNCHANGED previousRef
       ELSE /\ previousRef' = [imageIndex |-> index, signedUrl |-> url]
            /\ UNCHANGED <<recordingStartedRef, log, handlers>>
  /\ UNCHANGED <<recorderAdapter, passesSignedUrl, sentImageIndicesRef,
                 inflight, atEnd, ended>>
  /\ UNCHANGED notCapture

\* onUpdate resumes after stopRecording: submitSegment for prev, then the
\* start of the new capture (isNewImage holds whenever the flush ran)
OnUpdateAfterStop(h) ==
  /\ h.kind = "update" /\ h.pc = "stop"
  /\ BagCardinality(inflight) < MaxInflight
  /\ inflight' = inflight (+) One(Segment(h.prev, "update"))
  /\ recordingStartedRef' = TRUE
  /\ log' = log \o <<Flush(h), Begin(h)>>
  /\ handlers' = (handlers (-) One(h)) (+) One([h EXCEPT !.pc = "start"])
  /\ UNCHANGED <<recorderAdapter, passesSignedUrl, previousRef,
                 sentImageIndicesRef, delivered, deliveries, atEnd, ended>>
  /\ UNCHANGED notCapture

\* onUpdate resumes after startRecording
OnUpdateAfterStart(h) ==
  /\ h.kind = "update" /\ h.pc = "start"
  /\ previousRef' = [imageIndex |-> h.index, signedUrl |-> h.url]
  /\ handlers' = handlers (-) One(h)
  /\ UNCHANGED <<recorderAdapter, passesSignedUrl, recordingStartedRef,
                 sentImageIndicesRef, inflight, log, delivered,
                 deliveries, atEnd, ended>>
  /\ UNCHANGED notCapture

\* previousRef.current = null; recordingStartedRef.current = false;
\* sentImageIndicesRef.current.clear()
ClearRefs ==
  /\ previousRef' = NullRef
  /\ recordingStartedRef' = FALSE
  /\ sentImageIndicesRef' = {}

\* onEnd, from its call to its await (or to its end when nothing is flushed)
OnEnd ==
  LET prev == previousRef
      alreadySent == prev # NullRef /\ prev.imageIndex \in sentImageIndicesRef
  IN
  /\ ended < MaxEnds
  /\ ended' = ended + 1
  /\ atEnd' = Append(atEnd, delivered)
  /\ delivered' = <<>>
  /\ IF prev # NullRef /\ recordingStartedRef /\ ~alreadySent
       THEN /\ BagCardinality(handlers) < MaxSuspended
            /\ handlers' = handlers (+) One(
                 [kind |-> "end", pc |-> "stop", prev |-> prev,
                  index |-> -1, url |-> UNDEF, session |-> ended,
                  repeat |-> FALSE])
            /\ UNCHANGED <<previousRef, recordingStartedRef, sentImageIndicesRef>>
       ELSE /\ ClearRefs
            /\ UNCHANGED handlers
  /\ UNCHANGED <<recorderAdapter, passesSignedUrl, inflight, log, deliveries>>
  /\ UNCHANGED notCapture

\* onEnd resumes after stopRecording: final submitSegment, then the refs
\* are cleared
OnEndAfterStop(h) ==
  /\ h.kind = "end" /\ h.pc = "stop"
  /\ BagCardinality(inflight) < MaxInflight
  /\ inflight' = inflight (+) One(Segment(h.prev, "end"))
  /\ log' = Append(log, Flush(h))
  /\ ClearRefs
  /\ handlers' = handlers (-) One(h)
  /\ UNCHANGED <<recorderAdapter, passesSignedUrl, delivered,
                 deliveries, atEnd, ended>>
  /\ UNCHANGED notCapture

\* server/index.js: POST /api/session/segment answers 400 when the body has
\* neither signedUrl nor audioBase64 (submitSegment maps null to undefined)
SegmentAccepted(p) == ~(p.signedUrl = UNDEF /\ p.audio = NULL)

\* submitSegment(...).then(...): the index is marked as sent only now, and
\* only for a flush made by onUpdate
SubmitResolved(p) ==
  /\ SegmentAccepted(p)
  /\ sentImageIndicesRef' =
       IF p.by = "update" THEN sentImageIndicesRef \cup {p.imageIndex}
                          ELSE sentImageIndicesRef
  /\ inflight' = inflight (-) One(p)
  /\ UNCHANGED <<recorderAdapter, passesSignedUrl, previousRef,
                 recordingStartedRef, handlers, log, delivered,
                 deliveries, atEnd, ended>>
  /\ UNCHANGED notCapture

\* submitSegment(...).catch(...): HTTP 400 or a network failure
SubmitRejected(p) ==
  /\ inflight' = inflight (-) One(p)
  /\ UNCHANGED <<recorderAdapter, passesSignedUrl, previousRef,
                 recordingStartedRef, sentImageIndicesRef, handlers, log,
                 delivered, deliveries, atEnd, ended>>
  /\ UNCHANGED notCapture

NextCapture ==
  \/ setRecordingAdapter
  \/ UseSignedUrls
  \/ \E i \in Indices : OnUpdate(i)
  \/ \E h \in BagToSet(handlers) : OnUpdateAfterStop(h)
  \/ \E h \in BagToSet(handlers) : OnUpdateAfterStart(h)
  \/ OnEnd
  \/ \E h \in BagToSet(handlers) : OnEndAfterStop(h)
  \/ \E p \in BagToSet(inflight) : SubmitResolved(p)
  \/ \E p \in BagToSet(inflight) : SubmitRejected(p)

\* ------------------------------------------------------------------------
\* The relay (server/index.js): Socket.io connections, registry, sessions
\* ------------------------------------------------------------------------
NumSockets == 3
MaxStarts == 2

\* connection ids are handed out in this order and never reused
SocketIds == 1..NumSockets
NoSocket == 0

UserIds == {"evaluator1", "evaluator2", "client1"}
NoUser == "undefined"
\* USERS[userId].role: the role a user logs in with and registers as
RoleOf(userId) == IF userId = "client1" THEN "client" ELSE "evaluator"
\* payload.package of register: the Socket.io adapter sends none, the WebRTC
\* adapter sends 'webrtc'
RawPackages == {"undefined", "webrtc"}
\* the users an evaluator can pick as the target of a session
ClientIds == {u \in UserIds : RoleOf(u) = "client"}
VALID_PACKAGES == {"socketio", "mqtt", "webrtc"}

\* String(pkg || 'socketio').toLowerCase()
LowerCase(pkg) ==
  CASE pkg = "undefined" -> "socketio"
    [] pkg = "WebRTC" -> "webrtc"
    [] pkg = "MQTT" -> "mqtt"
    [] OTHER -> pkg

\* normalizePackage
normalizePackage(pkg) ==
  IF LowerCase(pkg) \in VALID_PACKAGES THEN LowerCase(pkg) ELSE "socketio"

NoInfo == [userId |-> NoUser, role |-> NoUser, package |-> NoUser]
\* a value of evaluatorSessions; inserted is the position of the key in the
\* iteration order of the Map (Map.set on a key it holds keeps the position)
NoSession == [clientId |-> NoUser, sessionId |-> 0, clientSocketId |-> NoSocket,
              inserted |-> 0]

\* a value of the history pairing: the client the evaluator was answered
\* session_started for together with, the package of the evaluator's
\* connection, whether the client's connection has been lost since, and the
\* client's connection now (NoSocket while it has none); ended when the
\* evaluator ended the pairing by end_session and began no other since
NoPairing == [clientId |-> NoUser, package |-> NoUser, lost |-> FALSE,
              socket |-> NoSocket, ended |-> FALSE]

RelayInit ==
  /\ connections = 0
  /\ sockets = {}
  /\ socketProps = [s \in SocketIds |-> NoInfo]
  /\ socketToUser = [s \in SocketIds |-> NoInfo]
  /\ onlineClients = {}
  /\ onlineEvaluators = {}
  /\ evaluatorSessions = [u \in UserIds |-> NoSession]
  /\ starts = 0
  /\ relayLast = [event |-> "none", socket |-> NoSocket]
  /\ emitted = {}
  /\ imageOrigin = [s \in SocketIds |-> NoSocket]
  /\ pairing = [u \in UserIds |-> NoPairing]

\* one emission: io.to(id).emit / socket.emit reach a live connection only
Emit(to, event, payload) == [to |-> to, event |-> event, payload |-> payload]
EmitTo(ids, event, payload) == {Emit(s, event, payload) : s \in ids \cap sockets}

\* io.on('connection')
Connection ==
  /\ connections < NumSockets
  /\ connections' = connections + 1
  /\ sockets' = sockets \cup {connections + 1}
  /\ relayLast' = [event |-> "connection", socket |-> connections + 1]
  /\ emitted' = {}
  /\ UNCHANGED <<socketProps, socketToUser, onlineClients, onlineEvaluators,
                 evaluatorSessions, starts, imageOrigin,
                 pairing>>
  /\ UNCHANGED notRelay

\* history: the client registers on connection s; where it had lost the
\* connection of a session, s is its connection from now on
Rejoined(s, userId, pkg) ==
  [e \in UserIds |->
     IF pairing[e].clientId = userId /\ pairing[e].package = pkg /\ pairing[e].lost
          /\ pairing[e].socket = NoSocket
       THEN [pairing[e] EXCEPT !.socket = s]
       ELSE pairing[e]]

\* history: connection s has gone; an evaluator's pairing ends with its
\* connection, a client's pairing has lost its connection
Left(s) ==
  [e \in UserIds |->
     IF socketProps[s].userId = e THEN NoPairing
     ELSE IF pairing[e].socket = s
       THEN [pairing[e] EXCEPT !.lost = TRUE, !.socket = NoSocket]
       ELSE pairing[e]]

\* socket.on('register'); userId = NoUser stands for a payload without userId.
\* An adapter registers once per connection, in its 'connect' handler.
Register(s, userId, role, pkg) ==
  /\ s \in sockets
  /\ socketProps[s] = NoInfo
  /\ relayLast' = [event |-> "register", socket |-> s]
  /\ IF userId = NoUser
       THEN /\ emitted' = {}
            /\ UNCHANGED <<socketProps, socketToUser, onlineClients, onlineEvaluators>>
       ELSE LET info == [userId |-> userId, role |-> role,
                         package |-> normalizePackage(pkg)]
            IN /\ socketProps' = [socketProps EXCEPT ![s] = info]
               /\ socketToUser' = [socketToUser EXCEPT ![s] = info]
               /\ IF role = "client"
                    THEN /\ onlineClients' = onlineClients \cup {userId}
                         /\ emitted' = EmitTo(sockets, "clients_updated", onlineClients')
                         /\ UNCHANGED onlineEvaluators
                    ELSE /\ onlineEvaluators' = onlineEvaluators \cup {userId}
                         /\ emitted' = {}
                         /\ UNCHANGED onlineClients
  /\ pairing' = IF userId = NoUser \/ role # "client" THEN pairing
                ELSE Rejoined(s, userId, normalizePackage(pkg))
  /\ UNCHANGED <<connections, sockets, evaluatorSessions, starts, imageOrigin>>
  /\ UNCHANGED notRelay

\* clientSockets[0]?.id || null : the first live connection, in connection
\* order, registered as this client with the package of the requester
ClientSocketFor(s, clientId) ==
  LET clientSockets == {c \in sockets : /\ socketProps[c].userId = clientId
                                        /\ socketProps[c].role = "client"
                                        /\ socketProps[c].package = socketProps[s].package}
  IN IF clientSockets = {} THEN NoSocket
     ELSE CHOOSE c \in clientSockets : \A d \in clientSockets : c <= d

\* socket.on('start_session'); clientId = NoUser stands for a missing clientId
StartSession(s, clientId) ==
  LET evaluatorId == socketProps[s].userId
      sessionId == starts + 1
      clientSocketId == ClientSocketFor(s, clientId)
  IN
  /\ s \in sockets
  /\ starts < MaxStarts
  /\ relayLast' = [event |-> "start_session", socket |-> s, clientId |-> clientId]
  /\ IF clientId = NoUser \/ evaluatorId = NoUser
       THEN /\ emitted' = {}
            /\ UNCHANGED <<evaluatorSessions, starts>>
       ELSE /\ starts' = starts + 1
            /\ evaluatorSessions' = [evaluatorSessions EXCEPT ![evaluatorId] =
                 [clientId |-> clientId, sessionId |-> sessionId,
                  clientSocketId |-> clientSocketId,
                  inserted |-> IF evaluatorSessions[evaluatorId] = NoSession
                                 THEN sessionId
                                 ELSE evaluatorSessions[evaluatorId].inserted]]
            /\ emitted' =
                 EmitTo({clientSocketId}, "session_started",
                        [sessionId |-> sessionId, evaluatorId |-> evaluatorId])
                 \cup EmitTo({s}, "session_started",
                        [sessionId |-> sessionId, clientId |-> clientId])
  /\ pairing' = IF clientId = NoUser \/ evaluatorId = NoUser \/ clientSocketId = NoSocket
                  THEN pairing
                  ELSE [pairing EXCEPT ![evaluatorId] =
                          [clientId |-> clientId, package |-> socketProps[s].package,
                           lost |-> FALSE, socket |-> clientSocketId,
                           ended |-> FALSE]]
  /\ UNCHANGED <<connections, sockets, socketProps, socketToUser, onlineClients,
                 onlineEvaluators, imageOrigin>>
  /\ UNCHANGED notRelay

SessionOf(userId) ==
  IF userId \in UserIds THEN evaluatorSessions[userId] ELSE NoSession

\* socket.on('image_update')
ImageUpdate(s, imageIndex) ==
  LET session == SessionOf(socketProps[s].userId) IN
  /\ s \in sockets
  /\ relayLast' = [event |-> "image_update", socket |-> s]
  /\ emitted' = IF session.clientSocketId = NoSocket THEN {}
                ELSE EmitTo({session.clientSocketId}, "image_update", imageIndex)
  /\ imageOrigin' = [t \in SocketIds |->
                       IF t = session.clientSocketId /\ t \in sockets
                         THEN s ELSE imageOrigin[t]]
  /\ UNCHANGED <<connections, sockets, socketProps, socketToUser, onlineClients,
                 onlineEvaluators, evaluatorSessions, starts, pairing>>
  /\ UNCHANGED notRelay

\* end_session as it would be if the record were kept
DeleteSessionKept(userId) == evaluatorSessions

\* evaluatorSessions.delete(socket.userId)
DeleteSession(userId) ==
  IF userId \in UserIds THEN [evaluatorSessions EXCEPT ![userId] = NoSession]
                        ELSE evaluatorSessions

\* socket.on('end_session')
EndSession(s) ==
  LET userId == socketProps[s].userId
      session == SessionOf(userId)
  IN
  /\ s \in sockets
  /\ relayLast' = [event |-> "end_session", socket |-> s]
  /\ evaluatorSessions' = DeleteSession(userId)
  /\ emitted' = EmitTo({session.clientSocketId} \ {NoSocket}, "session_ended", "{}")
                \cup EmitTo({s}, "session_ended", "{}")
  /\ pairing' = IF userId \in UserIds /\ pairing[userId] # NoPairing
                  THEN [pairing EXCEPT ![userId] = [NoPairing EXCEPT !.ended = TRUE]]
                  ELSE pairing
  /\ UNCHANGED <<connections, sockets, socketProps, socketToUser, onlineClients,
                 onlineEvaluators, starts, imageOrigin>>
  /\ UNCHANGED notRelay

\* for (const [evalId, sess] of evaluatorSessions.entries()) ...; break :
\* the first entry, in the order the map holds them, whose clientId matches
FirstSessionOf(clientId) ==
  LET matches == {e \in UserIds : /\ evaluatorSessions[e] # NoSession
                                  /\ evaluatorSessions[e].clientId = clientId}
  IN IF matches = {} THEN NoUser
     ELSE CHOOSE e \in matches :
            \A f \in matches : evaluatorSessions[e].inserted <= evaluatorSessions[f].inserted

\* socket.on('disconnect'): the connection has left io.sockets.sockets when
\* the handler runs
Disconnect(s) ==
  LET info == socketToUser[s]
      live == sockets \ {s}
      evalId == FirstSessionOf(info.userId)
  IN
  /\ s \in sockets
  /\ sockets' = live
  /\ relayLast' = [event |-> "disconnect", socket |-> s]
  /\ socketToUser' = [socketToUser EXCEPT ![s] = NoInfo]
  /\ onlineClients' = onlineClients \ {info.userId, socketProps[s].userId}
  /\ onlineEvaluators' = onlineEvaluators \ {socketProps[s].userId}
  /\ IF info # NoInfo /\ info.role = "client"
       THEN /\ evaluatorSessions' =
                 IF evalId = NoUser THEN evaluatorSessions
                 ELSE [evaluatorSessions EXCEPT ![evalId] = NoSession]
            /\ emitted' =
                 {Emit(t, "clients_updated", onlineClients \ {info.userId}) : t \in live}
                 \cup (IF evalId = NoUser THEN {}
                       ELSE {Emit(t, "session_ended", "{}") :
                               t \in {evaluatorSessions[evalId].clientSocketId} \cap live})
       ELSE IF info # NoInfo /\ info.role = "evaluator"
       THEN /\ evaluatorSessions' = [evaluatorSessions EXCEPT ![info.userId] = NoSession]
            /\ emitted' = {Emit(t, "session_ended", "{}") :
                             t \in {evaluatorSessions[info.userId].clientSocketId} \cap live}
       ELSE /\ emitted' = {}
            /\ UNCHANGED evaluatorSessions
  /\ pairing' = Left(s)
  /\ UNCHANGED <<connections, socketProps, starts, imageOrigin>>
  /\ UNCHANGED notRelay

\* sockets.find((s) => s.userId === evaluatorId && s.role === 'evaluator'):
\* the first live connection, in connection order, registered as that
\* evaluator
EvaluatorSocketOf(evaluatorId) ==
  LET found == {t \in sockets : /\ socketProps[t].userId = evaluatorId
                                /\ socketProps[t].role = "evaluator"}
  IN IF found = {} THEN NoSocket
     ELSE CHOOSE t \in found : \A u \in found : t <= u

\* socket.on('image_ack') with a payload that has sentAt and receivedAt: the
\* client on connection s acknowledges the image_update forwarded to it last
ImageAck(s) ==
  LET clientId == socketProps[s].userId
      evaluatorId == FirstSessionOf(clientId)
      evaluatorSocket == IF evaluatorId = NoUser THEN NoSocket
                         ELSE EvaluatorSocketOf(evaluatorId)
  IN
  /\ s \in sockets
  /\ imageOrigin[s] # NoSocket
  /\ relayLast' = [event |-> "image_ack", socket |-> s, origin |-> imageOrigin[s]]
  /\ emitted' = EmitTo({evaluatorSocket} \ {NoSocket}, "image_ack",
                       "{sentAt, receivedAt}")
  /\ imageOrigin' = [imageOrigin EXCEPT ![s] = NoSocket]
  /\ UNCHANGED <<connections, sockets, socketProps, socketToUser, onlineClients,
                 onlineEvaluators, evaluatorSessions, starts, pairing>>
  /\ UNCHANGED notRelay

\* the signal field of a webrtc_signal payload
Signals == {"offer", "candidate"}

\* the filter as it would be if it went by the role of the addressed user
TargetSocketsByRole(targetUserId) ==
  {t \in sockets : socketProps[t].role = RoleOf(targetUserId)}

\* Array.from(io.sockets.sockets.values()).filter((s) => s.userId === targetUserId)
TargetSockets(targetUserId) ==
  {t \in sockets : socketProps[t].userId = targetUserId}

\* socket.on('webrtc_signal')
WebRtcSignal(s, targetUserId, signal) ==
  /\ s \in sockets
  /\ relayLast' = [event |-> "webrtc_signal", socket |-> s,
                   targetUserId |-> targetUserId, signal |-> signal]
  /\ emitted' = {Emit(t, "webrtc_signal",
                      [fromUserId |-> socketProps[s].userId, signal |-> signal]) :
                   t \in TargetSockets(targetUserId)}
  /\ UNCHANGED <<connections, sockets, socketProps, socketToUser, onlineClients,
                 onlineEvaluators, evaluatorSessions, starts, imageOrigin,
                 pairing>>
  /\ UNCHANGED notRelay

\* the connections that have registered: an adapter registers in its
\* 'connect' handler, before it emits anything else
RegisteredSockets == {s \in sockets : socketProps[s] # NoInfo}

\* the connections whose adapter has role 'evaluator': the adapters emit
\* start_session, image_update and end_session only in that role, and only
\* after register
EvaluatorSockets == {s \in sockets : socketProps[s].role = "evaluator"}

NextRelay ==
  \/ Connection
  \/ \E s \in SocketIds, u \in UserIds, p \in RawPackages :
       Register(s, u, RoleOf(u), p)
  \/ \E s \in EvaluatorSockets, c \in ClientIds : StartSession(s, c)
  \/ \E s \in EvaluatorSockets, i \in Indices : ImageUpdate(s, i)
  \/ \E s \in EvaluatorSockets : EndSession(s)
  \/ \E s \in SocketIds : Disconnect(s)
  \/ \E s \in SocketIds : ImageAck(s)
  \/ \E s \in RegisteredSockets, u \in UserIds, g \in Signals : WebRtcSignal(s, u, g)

\* the steps that bear on the session records and on what they route
NextRelaySession ==
  \/ Connection
  \/ \E s \in SocketIds, u \in UserIds, p \in RawPackages :
       Register(s, u, RoleOf(u), p)
  \/ \E s \in EvaluatorSockets, c \in ClientIds : StartSession(s, c)
  \/ \E s \in EvaluatorSockets, i \in Indices : ImageUpdate(s, i)
  \/ \E s \in EvaluatorSockets : EndSession(s)
  \/ \E s \in SocketIds : Disconnect(s)

\* the steps that bear on the forwarding of signals
NextRelaySignal ==
  \/ Connection
  \/ \E s \in SocketIds, u \in UserIds, p \in RawPackages :
       Register(s, u, RoleOf(u), p)
  \/ \E s \in SocketIds : Disconnect(s)
  \/ \E s \in RegisteredSockets, u \in UserIds, g \in Signals : WebRtcSignal(s, u, g)

\* ------------------------------------------------------------------------
\* The server's presence endpoint (POST /api/presence) and client list
\* (GET /api/clients)
\* ------------------------------------------------------------------------
MaxTicks == 2
MaxListed == 2

PRESENCE_TTL_MS == 35000

\* how far the clock of the server moves between two requests
Delays == {1, PRESENCE_TTL_MS}

\* the package a presence report names: none, or a name as the app or
\* another caller writes it
PresencePackages == {"undefined", "mqtt", "webrtc"}

\* the users that connect while client lists are asked for
ListedUsers == {"client1", "evaluator1"}

\* the package a client list is asked for: none, empty, or a name
QueryPackages == {"undefined", "", "socketio", "mqtt", "MQTT", "webrtc", "grpc"}

\* a value of presenceMap; inserted is the position of the key in the
\* iteration order of the Map
NoEntry == [package |-> NoUser, lastSeen |-> -1, inserted |-> 0]

PresenceInit ==
  /\ presenceMap = [u \in UserIds |-> NoEntry]
  /\ clock = [now |-> 0, ticks |-> 0]
  /\ clientsLast = [package |-> NoUser, clients |-> <<>>]

\* time passes on the server
Tick(d) ==
  /\ clock.ticks < MaxTicks
  /\ clock' = [now |-> clock.now + d, ticks |-> clock.ticks + 1]
  /\ UNCHANGED <<presenceMap, clientsLast>>
  /\ UNCHANGED notPresence

\* app.post('/api/presence'), where it changes anything: 400 without userId
\* or package, 400 for a user that is not a client; otherwise the entry of
\* the user is set
PostPresence(userId, pkg) ==
  /\ IF userId = NoUser \/ pkg = "undefined" \/ pkg = ""
       THEN UNCHANGED presenceMap
     ELSE IF userId \notin UserIds \/ RoleOf(userId) # "client"
       THEN UNCHANGED presenceMap
     ELSE presenceMap' =
            [presenceMap EXCEPT ![userId] =
               [package |-> pkg, lastSeen |-> clock.now,
                inserted |-> IF @ # NoEntry THEN @.inserted
                             ELSE 1 + Cardinality({u \in UserIds :
                                                    presenceMap[u] # NoEntry})]]
  /\ presenceMap' # presenceMap
  /\ UNCHANGED <<clock, clientsLast>>
  /\ UNCHANGED notPresence

\* the test as it would be with >= in the place of >
StaleAtThreshold(entry, now) == now - entry.lastSeen >= PRESENCE_TTL_MS

\* the entry is too old: now - entry.lastSeen > PRESENCE_TTL_MS
Stale(entry, now) == now - entry.lastSeen > PRESENCE_TTL_MS

\* the first loop of /api/clients: the live connections in the order of
\* io.sockets.sockets (the order of their arrival), those with role client
\* and the package asked for
RECURSIVE FromSockets(_, _)
FromSockets(s, normalizedPkg) ==
  IF s > NumSockets THEN <<>>
  ELSE (IF /\ s \in sockets
           /\ socketProps[s].role = "client"
           /\ normalizePackage(socketProps[s].package) = normalizedPkg
          THEN <<socketProps[s].userId>> ELSE <<>>)
       \o FromSockets(s + 1, normalizedPkg)

\* the second loop: the presence entries in the order of the Map, skipping
\* the users the list holds, the other packages and the stale entries
RECURSIVE FromPresence(_, _, _)
FromPresence(k, normalizedPkg, list) ==
  LET at == {u \in UserIds : presenceMap[u] # NoEntry /\ presenceMap[u].inserted = k} IN
  IF at = {} THEN list
  ELSE LET userId == CHOOSE u \in at : TRUE
           entry == presenceMap[userId]
           seen == {list[j] : j \in DOMAIN list}
       IN FromPresence(k + 1, normalizedPkg,
            IF userId \in seen THEN list
            ELSE IF normalizePackage(entry.package) # normalizedPkg
                    \/ Stale(entry, clock.now) THEN list
            ELSE IF RoleOf(userId) = "client" THEN Append(list, userId)
            ELSE list)

\* app.get('/api/clients')
GetClients(rawPkg) ==
  /\ clientsLast' =
       [package |-> rawPkg,
        clients |-> IF rawPkg = "undefined" \/ rawPkg = "" THEN <<>>
                    ELSE IF normalizePackage(rawPkg) \notin VALID_PACKAGES THEN <<>>
                    ELSE FromPresence(1, normalizePackage(rawPkg),
                                      FromSockets(1, normalizePackage(rawPkg)))]
  /\ clientsLast' # clientsLast
  /\ UNCHANGED <<presenceMap, clock>>
  /\ UNCHANGED notPresence

NextClients ==
  \/ connections < MaxListed /\ Connection
  \/ \E s \in SocketIds, u \in ListedUsers, p \in RawPackages :
       Register(s, u, RoleOf(u), p)
  \/ \E s \in SocketIds : Disconnect(s)
  \/ \E d \in Delays : Tick(d)
  \/ \E u \in UserIds \cup {NoUser}, p \in PresencePackages : PostPresence(u, p)
  \/ \E p \in QueryPackages : GetClients(p)

\* ------------------------------------------------------------------------
\* The Socket.io adapter (SocketIoRealtimeService) and its connection
\* ------------------------------------------------------------------------
MaxConnects == 2
MaxLosses == 1
MaxStartCalls == 2
MaxSends == 2
MaxReceived == 2
MaxQueue == 2
MaxCallbacks == 2

Roles == {"evaluator", "client"}
\* the callbacks handed to on*: every registration passes a new function,
\* the n-th registration of an event type passes callback n
Callbacks == 1..MaxCallbacks
EventTypes == {"imageUpdate", "sessionStart", "sessionEnd"}
NoCallbacks == [t \in EventTypes |-> {}]

\* createDefaultLatencyMetrics(), the two counters of interest
createDefaultLatencyMetrics == [successfulMessages |-> 0, failedMessages |-> 0]

\* the sockets that connect() replaced without disconnecting them: the
\* library keeps them alive and their handlers stay attached
NoneAbandoned == [connecting |-> 0, connected |-> 0]

SocketIoInit ==
  /\ sio = [socket |-> "null", role |-> NULL, sessionId |-> 0, clientId |-> NULL,
            onStarted |-> 0, metrics |-> createDefaultLatencyMetrics,
            callbacks |-> NoCallbacks]
  /\ sioNet = [up |-> <<>>, down |-> <<>>, userId |-> FALSE, starts |-> 0,
               buffer |-> <<>>, abandoned |-> NoneAbandoned]
  /\ sioObs = [connects |-> 0, losses |-> 0, startCalls |-> 0, pending |-> 0,
               sendCalls |-> 0, received |-> 0, invoked |-> {}, event |-> "none"]

\* this.socket?.connected
SioConnected == sio.socket = "connected"

\* disconnect(): removeAllListeners drops the built-in handlers and every
\* onStarted listener of a pending startSession; the connection is closed
SioDisconnectEffect(svc) ==
  [svc EXCEPT !.socket = "null", !.sessionId = 0, !.clientId = NULL,
              !.onStarted = 0, !.callbacks = NoCallbacks]

\* connect(userId, role): a connected socket is disconnected first
\* (this.socket?.connected); a socket that is still connecting or is
\* reconnecting is not, and this.socket is overwritten.  Then a new socket is
\* created with the built-in handlers
SioConnect(role) ==
  /\ sioObs.connects < MaxConnects
  /\ sio' = [(IF SioConnected THEN SioDisconnectEffect(sio) ELSE sio)
               EXCEPT !.socket = "connecting", !.role = role]
  /\ sioNet' = [sioNet EXCEPT
                  !.up = <<>>, !.down = <<>>, !.userId = FALSE, !.buffer = <<>>,
                  !.abandoned.connecting =
                     IF sio.socket \in {"connecting", "down"} THEN @ + 1 ELSE @]
  /\ sioObs' = [sioObs EXCEPT !.connects = @ + 1, !.invoked = {},
                              !.event = "connect()"]
  /\ UNCHANGED notSocketIo

\* socket.on('connect') (first connection or reconnection) and
\* socket.on('reconnect'): register is emitted, after what the socket had
\* buffered while it was not connected
SioOnConnect ==
  /\ sio.socket \in {"connecting", "down"}
  /\ sio' = [sio EXCEPT !.socket = "connected"]
  /\ sioNet' = [sioNet EXCEPT !.up = Append(sioNet.buffer, "register"),
                              !.down = <<>>, !.buffer = <<>>]
  /\ sioObs' = [sioObs EXCEPT !.invoked = {}, !.event = "connect"]
  /\ UNCHANGED notSocketIo

\* the transport is lost: what was in flight is lost, the relay runs its
\* disconnect handler (the session record is deleted) and the client library
\* starts to reconnect (reconnection: true)
SioTransportLost ==
  /\ SioConnected
  /\ sioObs.losses < MaxLosses
  /\ sio' = [sio EXCEPT !.socket = "down"]
  /\ sioNet' = [sioNet EXCEPT !.up = <<>>, !.down = <<>>, !.userId = FALSE]
  /\ sioObs' = [sioObs EXCEPT !.losses = @ + 1, !.invoked = {},
                              !.event = "transport lost"]
  /\ UNCHANGED notSocketIo

\* disconnect(), where it changes anything
SioDisconnect ==
  /\ SioDisconnectEffect(sio) # sio
  /\ sio' = SioDisconnectEffect(sio)
  /\ sioNet' = [sioNet EXCEPT !.up = <<>>, !.down = <<>>, !.userId = FALSE,
                              !.buffer = <<>>]
  /\ sioObs' = [sioObs EXCEPT !.invoked = {}, !.event = "disconnect()"]
  /\ UNCHANGED notSocketIo

\* the 'connect' handler of an abandoned socket: this.socket?.emit('register')
\* goes to the socket the adapter holds now (buffered when that one is not
\* connected)
SioAbandonedOnConnect ==
  /\ sioNet.abandoned.connecting > 0
  /\ Len(sioNet.up) < MaxQueue /\ Len(sioNet.buffer) < MaxQueue
  /\ sioNet' = [sioNet EXCEPT
                  !.abandoned.connecting = @ - 1,
                  !.abandoned.connected = @ + 1,
                  !.up = IF SioConnected THEN Append(@, "register") ELSE @,
                  !.buffer = IF sio.socket \in {"connecting", "down"}
                               THEN Append(@, "register") ELSE @]
  /\ sioObs' = [sioObs EXCEPT !.invoked = {}, !.event = "connect (abandoned)"]
  /\ UNCHANGED sio
  /\ UNCHANGED notSocketIo

\* startSession(clientId): returns at once (a resolved promise) when not
\* connected or not an evaluator; otherwise the promise is resolved by the
\* onStarted listener only
SioStartSession(clientId) ==
  /\ sioObs.startCalls < MaxStartCalls
  /\ IF ~SioConnected \/ sio.role # "evaluator"
       THEN /\ sioObs' = [sioObs EXCEPT !.startCalls = @ + 1, !.invoked = {},
                                        !.event = "startSession()"]
            /\ UNCHANGED <<sio, sioNet>>
       ELSE /\ Len(sioNet.up) < MaxQueue
            /\ sio' = [sio EXCEPT !.clientId = clientId, !.onStarted = @ + 1]
            /\ sioNet' = [sioNet EXCEPT !.up = Append(@, "start_session")]
            /\ sioObs' = [sioObs EXCEPT !.startCalls = @ + 1, !.pending = @ + 1,
                                        !.invoked = {}, !.event = "startSession()"]
  /\ UNCHANGED notSocketIo

\* sendImageUpdate(imageIndex, imageUrl)
SioSendImageUpdate(imageIndex) ==
  /\ sioObs.sendCalls < MaxSends
  /\ sioObs' = [sioObs EXCEPT !.sendCalls = @ + 1, !.invoked = {},
                              !.event = "sendImageUpdate()"]
  /\ IF ~SioConnected \/ sio.role # "evaluator"
       THEN /\ sio' = [sio EXCEPT !.metrics.failedMessages = @ + 1]
            /\ UNCHANGED sioNet
       ELSE /\ Len(sioNet.up) < MaxQueue
            /\ sio' = [sio EXCEPT !.metrics.successfulMessages = @ + 1]
            /\ sioNet' = [sioNet EXCEPT !.up = Append(@, "image_update")]
  /\ UNCHANGED notSocketIo

\* endSession()
SioEndSession ==
  /\ sio.sessionId # 0 \/ sio.clientId # NULL
  /\ IF SioConnected /\ sio.role = "evaluator"
       THEN /\ Len(sioNet.up) < MaxQueue
            /\ sioNet' = [sioNet EXCEPT !.up = Append(@, "end_session")]
       ELSE UNCHANGED sioNet
  /\ sio' = [sio EXCEPT !.sessionId = 0, !.clientId = NULL]
  /\ sioObs' = [sioObs EXCEPT !.invoked = {}, !.event = "endSession()"]
  /\ UNCHANGED notSocketIo

\* onImageUpdate / onSessionStart / onSessionEnd: Set.add of a new function
SioOn(type) ==
  /\ Cardinality(sio.callbacks[type]) < MaxCallbacks
  /\ sio' = [sio EXCEPT !.callbacks[type] = @ \cup {Cardinality(@) + 1}]
  /\ sioObs' = [sioObs EXCEPT !.invoked = {}, !.event = "on()"]
  /\ UNCHANGED sioNet
  /\ UNCHANGED notSocketIo

\* the relay handles the event at the head of the connection: register sets
\* socket.userId; start_session answers session_started to the sender when
\* socket.userId is set; end_session answers session_ended; image_update is
\* forwarded to the client and answers nothing
SioRelayHandles ==
  /\ sioNet.up # <<>>
  /\ LET event == Head(sioNet.up)
         rest == [sioNet EXCEPT !.up = Tail(@)]
     IN CASE event = "register" ->
               sioNet' = [rest EXCEPT !.userId = TRUE]
          [] event = "start_session" /\ sioNet.userId ->
               sioNet' = [rest EXCEPT
                 !.starts = (@ % MaxStartCalls) + 1,
                 !.down = Append(@, [event |-> "session_started",
                                     sessionId |-> (sioNet.starts % MaxStartCalls) + 1,
                                     evaluatorName |-> FALSE])]
          [] event = "end_session" ->
               sioNet' = [rest EXCEPT
                 !.down = Append(@, [event |-> "session_ended"])]
          [] OTHER -> sioNet' = rest
  /\ UNCHANGED <<sio, sioObs>>
  /\ UNCHANGED notSocketIo

\* what the relay sends to the connection of a client: session_started with
\* the evaluator's name, image_update, session_ended
SioRelayNotifies(e) ==
  /\ SioConnected /\ sio.role = "client" /\ sioNet.userId
  /\ Len(sioNet.down) < MaxQueue
  /\ sioObs.received < MaxReceived
  /\ sioNet' = [sioNet EXCEPT !.down = Append(@, e)]
  /\ sioObs' = [sioObs EXCEPT !.received = @ + 1]
  /\ UNCHANGED sio
  /\ UNCHANGED notSocketIo

ClientEvents ==
  {[event |-> "session_started", sessionId |-> 1, evaluatorName |-> TRUE],
   [event |-> "session_ended"]}
  \cup {[event |-> "image_update", imageIndex |-> i] : i \in {0}}

\* the event at the head of the downlink reaches the socket: the built-in
\* handler of connect() runs, and for session_started every onStarted
\* listener (each removes itself and resolves its promise)
SioReceives ==
  /\ sioNet.down # <<>>
  /\ SioConnected
  /\ LET e == Head(sioNet.down) IN
     /\ sioNet' = [sioNet EXCEPT !.down = Tail(@)]
     /\ CASE e.event = "session_started" ->
               /\ sio' = [sio EXCEPT
                     !.sessionId = IF sio.onStarted > 0 THEN e.sessionId ELSE @,
                     !.onStarted = 0]
               /\ sioObs' = [sioObs EXCEPT
                     !.pending = @ - sio.onStarted,
                     !.event = "session_started",
                     !.invoked = IF e.evaluatorName
                                   THEN sio.callbacks["sessionStart"] ELSE {}]
          [] e.event = "session_ended" ->
               /\ sio' = [sio EXCEPT !.sessionId = 0, !.clientId = NULL]
               /\ sioObs' = [sioObs EXCEPT !.event = "session_ended",
                                           !.invoked = sio.callbacks["sessionEnd"]]
          [] e.event = "image_update" ->
               /\ sio' = [sio EXCEPT !.metrics.successfulMessages = @ + 1]
               /\ sioObs' = [sioObs EXCEPT !.event = "image_update",
                                           !.invoked = sio.callbacks["imageUpdate"]]
  /\ UNCHANGED notSocketIo

NextSocketIo ==
  \/ \E r \in Roles : SioConnect(r)
  \/ SioOnConnect
  \/ SioTransportLost
  \/ SioDisconnect
  \/ \E c \in ClientIds : SioStartSession(c)
  \/ \E i \in {0} : SioSendImageUpdate(i)
  \/ SioEndSession
  \/ \E t \in EventTypes : SioOn(t)
  \/ SioRelayHandles
  \/ \E e \in ClientEvents : SioRelayNotifies(e)
  \/ SioReceives
  \/ SioAbandonedOnConnect

\* ------------------------------------------------------------------------
\* The peer-channel adapter (WebRtcRealtimeService), its RTCPeerConnection
\* and data-channel objects, its promise chains and its timers
\* ------------------------------------------------------------------------
MaxRtcConnects == 1
MaxPeers == 2
MaxSessions == 2
MaxSignals == 3
MaxCandidates == 2
MaxMessages == 1
MaxRtcSends == 2
MaxRejections == 1
MaxRtcLosses == 1

\* RTCPeerConnection objects in the order of their creation; the data
\* channel of peer connection p is channel p
Peers == 1..MaxPeers
NoPeer == 0
\* pendingImage === null
NoImage == -1
\* the promise of the n-th startSession call that went past its guard
Calls == 1..MaxSessions
NoCall == 0

NewPeer ==
  [state |-> "none", localDescription |-> FALSE, remoteDescription |-> FALSE,
   channel |-> "none", listeners |-> "none", applied |-> {}]

WebRtcInit ==
  /\ rtc = [socket |-> "null", role |-> NULL, remoteUserId |-> NULL,
            pc |-> NoPeer, dataChannel |-> NoPeer, dataChannelListeners |-> NoPeer,
            signalingResolve |-> NoCall, pendingImage |-> NoImage,
            pendingIceCandidates |-> <<>>,
            metrics |-> createDefaultLatencyMetrics, callbacks |-> NoCallbacks]
  /\ rtcEnv = [peers |-> [p \in Peers |-> NewPeer], ops |-> {}, timers |-> {},
               pending |-> {}, sendBuffer |-> {}, anonymous |-> {},
               reconnected |-> FALSE, relaySession |-> FALSE]
  /\ rtcObs = [sessions |-> 0, sendCalls |-> 0, signals |-> 0, candidates |-> 0,
               messages |-> 0, rejections |-> 0, connects |-> 0, losses |-> 0,
               received |-> {}, offered |-> FALSE,
               latest |-> NoImage, earlier |-> {}, emitted |-> {},
               ended |-> {}, current |-> NoImage]

\* the adapter and its environment during one step; out collects what the
\* step sends and which callbacks it invokes
World == [svc |-> rtc, env |-> rtcEnv, out |-> {}]

Out(w, o) == [w EXCEPT !.out = @ \cup {o}]

\* this.socket?.emit(event, ...): a socket that is not connected (still
\* connecting, or reconnecting) keeps the packet in its send buffer (the order
\* of the packets in the buffer is not modelled)
SocketEmit(w, event) ==
  IF w.svc.socket = "connected" THEN Out(w, [kind |-> "emit", event |-> event])
  ELSE IF w.svc.socket = "null" THEN w
  ELSE [w EXCEPT !.env.sendBuffer = @ \cup {event}]

\* callbacks.forEach((cb) => cb(...))
Invoke(w, type) ==
  [w EXCEPT !.out = @ \cup {[kind |-> "invoke", type |-> type, callback |-> c] :
                              c \in w.svc.callbacks[type]}]

\* this.signalingResolve?.() : the closure of the call that set it clears
\* that call's timeout, resets the field and resolves that call's promise
signalingResolve(w) ==
  LET n == w.svc.signalingResolve IN
  IF n = NoCall THEN w
  ELSE [w EXCEPT !.svc.signalingResolve = NoCall,
                 !.env.timers = @ \ {[call |-> n, kind |-> "timeout"]},
                 !.env.pending = @ \ {n}]

\* closePeerConnection()
closePeerConnection(w) ==
  LET l == w.svc.dataChannelListeners
      d == w.svc.dataChannel
      p == w.svc.pc
  IN [w EXCEPT
       !.env.peers = [k \in Peers |->
          [@[k] EXCEPT
             !.listeners = IF k = l THEN "none" ELSE @,
             !.channel = IF k \in {d, p} /\ @ \in {"connecting", "open"}
                           THEN "closed" ELSE @,
             !.state = IF k = p THEN "closed" ELSE @]],
       !.svc.dataChannelListeners = NoPeer,
       !.svc.dataChannel = NoPeer,
       !.svc.pc = NoPeer,
       !.svc.pendingImage = NoImage,
       !.svc.pendingIceCandidates = <<>>]

\* handleSessionEnd as it would be without the forEach over the callbacks
handleSessionEndSilent(w) ==
  [closePeerConnection(w) EXCEPT !.svc.remoteUserId = NULL]

\* handleSessionEnd()
handleSessionEnd(w) ==
  Invoke([closePeerConnection(w) EXCEPT !.svc.remoteUserId = NULL], "sessionEnd")

Range(seq) == {seq[k] : k \in DOMAIN seq}

\* drainPendingIceCandidates(): addIceCandidate on the current pc for every
\* buffered candidate
drainPendingIceCandidates(w) ==
  IF w.svc.pc = NoPeer THEN w
  ELSE [w EXCEPT !.env.peers[w.svc.pc].applied = @ \cup Range(w.svc.pendingIceCandidates),
                 !.svc.pendingIceCandidates = <<>>]

\* this.dataChannel?.readyState === 'open'
ChannelOpen(w) ==
  /\ w.svc.dataChannel # NoPeer
  /\ w.env.peers[w.svc.dataChannel].channel = "open"

\* this.dataChannel.send(JSON.stringify({imageIndex, imageUrl, sentAt}))
SendImage(w, imageIndex) ==
  Out(w, [kind |-> "image", channel |-> w.svc.dataChannel, imageIndex |-> imageIndex])

\* sendImageUpdate as it would be if an image already pending were kept
\* (the first call wins)
sendImageUpdateKeepsFirst(w, imageIndex) ==
  LET w1 == IF w.svc.pendingImage = NoImage
              THEN [w EXCEPT !.svc.pendingImage = imageIndex] ELSE w IN
  IF w1.svc.role # "evaluator" \/ w1.svc.dataChannel = NoPeer
    THEN [w1 EXCEPT !.svc.metrics.failedMessages = @ + 1]
  ELSE IF ~ChannelOpen(w1) THEN w1
  ELSE [SendImage(w1, imageIndex) EXCEPT !.svc.metrics.successfulMessages = @ + 1]

\* sendImageUpdate(imageIndex, imageUrl)
sendImageUpdate(w, imageIndex) ==
  LET w1 == [w EXCEPT !.svc.pendingImage = imageIndex] IN
  IF w1.svc.role # "evaluator" \/ w1.svc.dataChannel = NoPeer
    THEN [w1 EXCEPT !.svc.metrics.failedMessages = @ + 1]
  ELSE IF ~ChannelOpen(w1) THEN w1
  ELSE [SendImage(w1, imageIndex) EXCEPT !.svc.metrics.successfulMessages = @ + 1]

\* the step leaves the world w behind, having handled event; ended is the
\* history of the session-end callbacks invoked since the session began
Leaves(w, event, obs) ==
  /\ rtc' = w.svc
  /\ rtcEnv' = w.env
  /\ rtcObs' = [obs EXCEPT !.emitted = w.out,
                           !.rejections = IF event = "rejected" THEN @ + 1 ELSE @,
                           !.ended =
                             IF event \in {"session_started", "connect()", "disconnect()"}
                               THEN {}
                             ELSE @ \cup {o.callback : o \in
                                            {i \in w.out : /\ i.kind = "invoke"
                                                           /\ i.type = "sessionEnd"}}]
  /\ UNCHANGED notWebRtc

RtcConnected == rtc.socket = "connected"

\* disconnect(): the socket goes, and its send buffer with it
RtcDisconnectEffect(w) ==
  [closePeerConnection(w) EXCEPT !.svc.socket = "null", !.svc.remoteUserId = NULL,
                                 !.svc.callbacks = NoCallbacks,
                                 !.env.sendBuffer = {}, !.env.anonymous = {},
                                 !.env.reconnected = FALSE,
                                 !.env.relaySession = FALSE]

\* the history of the handshake and of the calls ends with the peer
\* connection
Forget(obs) ==
  [obs EXCEPT !.received = {}, !.offered = FALSE, !.latest = NoImage,
              !.earlier = {}, !.current = NoImage]

\* connect(userId, role)
RtcConnect(role) ==
  /\ rtc.socket \in {"null", "connected"}
  /\ rtcObs.connects < MaxRtcConnects
  /\ LET w == IF RtcConnected THEN RtcDisconnectEffect(World) ELSE World
         obs == [rtcObs EXCEPT !.connects = @ + 1]
     IN Leaves([w EXCEPT !.svc.socket = "connecting", !.svc.role = role],
               "connect()", IF RtcConnected THEN Forget(obs) ELSE obs)

\* the socket connects, for the first time or again after the transport was
\* lost: the library sends what is in the send buffer and fires 'connect',
\* whose handler emits register with package 'webrtc'.  Releases of
\* socket.io-client differ in which of the two comes first (2.x fires the
\* event first, 4.x sends the buffer first); anonymous is what the relay was
\* sent on this connection before its register
RtcOnConnect(flushFirst) ==
  /\ rtc.socket \in {"connecting", "down"}
  /\ LET w == [World EXCEPT
                 !.svc.socket = "connected",
                 !.env.sendBuffer = {},
                 !.env.anonymous = IF flushFirst THEN rtcEnv.sendBuffer ELSE {},
                 !.env.reconnected = (rtc.socket = "down"),
                 !.out = {[kind |-> "emit", event |-> e] : e \in rtcEnv.sendBuffer}]
     IN Leaves(SocketEmit(w, "register"), "connect", rtcObs)

\* the transport is lost: the socket is no longer connected and the library
\* starts to reconnect (reconnection: true)
RtcTransportLost ==
  /\ RtcConnected
  /\ rtcObs.losses < MaxRtcLosses
  /\ Leaves([World EXCEPT !.svc.socket = "down", !.env.anonymous = {},
                          !.env.reconnected = FALSE,
                          !.env.relaySession = FALSE],
            "transport lost", [rtcObs EXCEPT !.losses = @ + 1])

\* disconnect(), where it changes anything
RtcDisconnect ==
  /\ RtcDisconnectEffect(World).svc # rtc
  /\ Leaves(RtcDisconnectEffect(World), "disconnect()", Forget(rtcObs))

\* createOfferAndSend(clientId): a new RTCPeerConnection and data channel
\* with the sender's listeners; the chain createOffer -> setLocalDescription
\* -> sendSignal starts
createOfferAndSend(w, p) ==
  [w EXCEPT !.svc.pc = p, !.svc.dataChannel = p, !.svc.dataChannelListeners = p,
            !.env.peers[p] = [NewPeer EXCEPT !.state = "live",
                                             !.channel = "connecting",
                                             !.listeners = "sender"],
            !.env.ops = @ \cup {[kind |-> "offer", step |-> "createOffer", pc |-> p]}]

PeersCreated == Cardinality({p \in Peers : rtcEnv.peers[p].state # "none"})

\* startSession(clientId)
RtcStartSession ==
  IF ~RtcConnected \/ rtc.role # "evaluator"
    THEN Leaves(World, "startSession()", rtcObs)
    ELSE /\ rtcObs.sessions < MaxSessions
         /\ PeersCreated < MaxPeers
         /\ LET n == rtcObs.sessions + 1
                w1 == [World EXCEPT
                         !.svc.remoteUserId = "client1",
                         !.svc.pendingImage = NoImage,
                         !.svc.pendingIceCandidates = <<>>,
                         !.svc.signalingResolve = n,
                         !.env.timers = @ \cup {[call |-> n, kind |-> "timeout"],
                                                [call |-> n, kind |-> "early"]},
                         !.env.pending = @ \cup {n}]
                w2 == createOfferAndSend(SocketEmit(w1, "start_session"),
                                         PeersCreated + 1)
            IN Leaves(w2, "startSession()",
                      [Forget(rtcObs) EXCEPT !.sessions = n])

\* the 800 ms timer of call n: if (this.signalingResolve) this.signalingResolve()
RtcEarlyTimer(n) ==
  /\ [call |-> n, kind |-> "early"] \in rtcEnv.timers
  /\ Leaves(signalingResolve([World EXCEPT
              !.env.timers = @ \ {[call |-> n, kind |-> "early"]}]),
            "timer", rtcObs)

\* the 4000 ms timeout of call n, after its 800 ms timer
RtcTimeout(n) ==
  /\ [call |-> n, kind |-> "timeout"] \in rtcEnv.timers
  /\ [call |-> n, kind |-> "early"] \notin rtcEnv.timers
  /\ Leaves([World EXCEPT !.env.timers = @ \ {[call |-> n, kind |-> "timeout"]},
                          !.svc.signalingResolve = NoCall,
                          !.env.pending = @ \ {n}],
            "timer", rtcObs)

\* an operation on a closed RTCPeerConnection rejects; on a live one it
\* resolves or rejects
Outcomes(p) ==
  IF rtcEnv.peers[p].state # "live" THEN {FALSE}
  ELSE IF rtcObs.rejections < MaxRejections THEN {TRUE, FALSE}
  ELSE {TRUE}

\* the name of a step of a chain: a rejection on a live connection counts
Settled(op, ok, name) ==
  IF ~ok /\ rtcEnv.peers[op.pc].state = "live" THEN "rejected" ELSE name

Without(w, op) == [w EXCEPT !.env.ops = @ \ {op}]

\* the operation op of a chain rejected in this step
Rejected(w, op, ok) ==
  IF ok THEN w ELSE Out(w, [kind |-> "failure", chain |-> op.kind, step |-> op.step])

\* .catch of the offer chain as it would be without the count
OfferFailedUncounted(w) ==
  signalingResolve(w)

\* .catch of the offer chain
OfferFailed(w) ==
  signalingResolve([w EXCEPT !.svc.metrics.failedMessages = @ + 1])

\* the offer chain goes on when its pending operation settles; this.pc! is
\* the field at that moment (a TypeError when it is null)
RtcOfferStep(op, ok) ==
  /\ op \in rtcEnv.ops /\ op.kind = "offer"
  /\ ok \in Outcomes(op.pc)
  /\ LET w == Rejected(Without(World, op), op, ok) IN
     IF ~ok \/ rtc.pc = NoPeer
       THEN Leaves(OfferFailed(w), Settled(op, ok, "offer chain"), rtcObs)
     ELSE IF op.step = "createOffer"
       THEN Leaves([w EXCEPT !.env.ops = @ \cup
                      {[kind |-> "offer", step |-> "setLocalDescription",
                        pc |-> rtc.pc]}],
                   Settled(op, ok, "offer chain"), rtcObs)
     ELSE Leaves(SocketEmit([w EXCEPT !.env.peers[op.pc].localDescription = TRUE],
                            "webrtc_signal offer"),
                 Settled(op, ok, "offer chain"), rtcObs)

\* pc.onicecandidate: the candidate is sent to the other side
RtcOnIceCandidate(p) ==
  /\ rtcEnv.peers[p].state = "live"
  /\ rtcEnv.peers[p].localDescription
  /\ Leaves(SocketEmit(World, "webrtc_signal candidate"), "icecandidate", rtcObs)

\* handleSignal(fromUserId, signal) with an offer (client)
RtcOffer ==
  /\ RtcConnected /\ rtc.role = "client"
  /\ rtcObs.signals < MaxSignals
  /\ rtc.pc = NoPeer => PeersCreated < MaxPeers
  /\ LET p == IF rtc.pc = NoPeer THEN PeersCreated + 1 ELSE rtc.pc
         op == [kind |-> "answer", step |-> "setRemoteDescription", pc |-> p]
         w1 == [World EXCEPT !.svc.pendingIceCandidates = <<>>]
         w2 == IF rtc.pc = NoPeer
                 THEN [w1 EXCEPT !.svc.pc = p,
                                 !.env.peers[p] = [NewPeer EXCEPT !.state = "live"]]
                 ELSE w1
     IN /\ op \notin rtcEnv.ops
        /\ Leaves([w2 EXCEPT !.env.ops = @ \cup {op}], "signal offer",
                  [rtcObs EXCEPT !.signals = @ + 1, !.offered = TRUE,
                                 !.received = IF rtcObs.offered THEN {} ELSE @])

\* the answer chain: setRemoteDescription -> createAnswer ->
\* setLocalDescription -> sendSignal -> drainPendingIceCandidates
RtcAnswerStep(op, ok) ==
  /\ op \in rtcEnv.ops /\ op.kind = "answer"
  /\ ok \in Outcomes(op.pc)
  /\ LET w == Rejected(Without(World, op), op, ok)
         w1 == IF op.step = "setRemoteDescription"
                 THEN [w EXCEPT !.env.peers[op.pc].remoteDescription = TRUE]
               ELSE IF op.step = "setLocalDescription"
                 THEN [w EXCEPT !.env.peers[op.pc].localDescription = TRUE]
               ELSE w
         next == IF op.step = "setRemoteDescription" THEN "createAnswer"
                 ELSE "setLocalDescription"
         nextOp == [kind |-> "answer", step |-> next, pc |-> rtc.pc]
     IN
     IF ~ok
       THEN Leaves([w EXCEPT !.svc.metrics.failedMessages = @ + 1],
                   Settled(op, ok, "answer chain"), rtcObs)
     ELSE IF rtc.pc = NoPeer
       THEN Leaves([w1 EXCEPT !.svc.metrics.failedMessages = @ + 1],
                   Settled(op, ok, "answer chain"), rtcObs)
     ELSE IF op.step # "setLocalDescription"
       THEN /\ nextOp \notin w1.env.ops
            /\ Leaves([w1 EXCEPT !.env.ops = @ \cup {nextOp}], Settled(op, ok, "answer chain"), rtcObs)
     ELSE Leaves(drainPendingIceCandidates(SocketEmit(w1, "webrtc_signal answer")),
                 Settled(op, ok, "answer chain"), rtcObs)

\* handleSignal(fromUserId, signal) with an answer (evaluator); the client
\* answers an offer, so an offer was sent before
RtcAnswer ==
  /\ RtcConnected /\ rtc.role = "evaluator"
  /\ \E p \in Peers : rtcEnv.peers[p].localDescription
  /\ rtcObs.signals < MaxSignals
  /\ LET op == [kind |-> "remote", step |-> "setRemoteDescription", pc |-> rtc.pc] IN
     /\ op \notin rtcEnv.ops
     /\ Leaves(IF rtc.pc = NoPeer THEN World
               ELSE [World EXCEPT !.env.ops = @ \cup {op}],
               "signal answer", [rtcObs EXCEPT !.signals = @ + 1])

\* setRemoteDescription(answer) settles: drainPendingIceCandidates, or .catch
RtcRemoteStep(op, ok) ==
  /\ op \in rtcEnv.ops /\ op.kind = "remote"
  /\ ok \in Outcomes(op.pc)
  /\ LET w == Rejected(Without(World, op), op, ok) IN
     IF ok
       THEN Leaves(drainPendingIceCandidates(
                     [w EXCEPT !.env.peers[op.pc].remoteDescription = TRUE]),
                   Settled(op, ok, "remote description"), rtcObs)
       ELSE Leaves([w EXCEPT !.svc.metrics.failedMessages = @ + 1],
                   Settled(op, ok, "remote description"), rtcObs)

\* handleSignal(fromUserId, signal) with the ICE candidate c
RtcCandidate ==
  /\ RtcConnected
  /\ rtcObs.signals < MaxSignals
  /\ rtcObs.candidates < MaxCandidates
  /\ LET c == rtcObs.candidates + 1
         obs == [rtcObs EXCEPT !.signals = @ + 1, !.candidates = c,
                               !.received = @ \cup {c}]
     IN IF rtc.pc # NoPeer /\ rtcEnv.peers[rtc.pc].remoteDescription
          THEN Leaves([World EXCEPT !.env.peers[rtc.pc].applied = @ \cup {c}],
                      "signal candidate", obs)
          ELSE Leaves([World EXCEPT !.svc.pendingIceCandidates = Append(@, c)],
                      "signal candidate", obs)

\* socket.on('session_started'): the relay's notification of the client, or
\* its reply to the evaluator (which carries no evaluatorId); the relay has
\* a session with this connection in it
RtcSessionStarted ==
  /\ RtcConnected
  /\ rtc.role = "evaluator" => rtcObs.sessions > 0
  /\ Leaves(Invoke([World EXCEPT !.svc.remoteUserId =
                      IF rtc.role = "client" THEN "evaluator1" ELSE NULL,
                                 !.env.relaySession = TRUE],
                   "sessionStart"),
            "session_started", rtcObs)

\* socket.on('session_ended'): the relay ended the session this connection
\* was in, or answers the end_session of this connection
RtcSessionEnded ==
  /\ RtcConnected
  /\ rtcEnv.relaySession
  /\ Leaves(handleSessionEnd([World EXCEPT !.env.relaySession = FALSE]),
            "session_ended", Forget(rtcObs))

\* pc.ondatachannel (client): setupDataChannelAsReceiver
RtcOnDataChannel(p) ==
  /\ rtcEnv.peers[p].state = "live"
  /\ rtcEnv.peers[p].remoteDescription /\ rtcEnv.peers[p].localDescription
  /\ rtcEnv.peers[p].channel = "none"
  /\ rtc.role = "client"
  /\ Leaves([World EXCEPT !.svc.dataChannel = p, !.svc.dataChannelListeners = p,
                          !.env.peers[p].channel = "connecting",
                          !.env.peers[p].listeners = "receiver"],
            "datachannel", rtcObs)

\* the 'open' event of channel p: onOpen of the sender (evaluator) or of the
\* receiver (client), when the listeners are still on the channel
RtcChannelOpen(p) ==
  /\ rtcEnv.peers[p].state = "live"
  /\ rtcEnv.peers[p].channel = "connecting"
  /\ rtcEnv.peers[p].remoteDescription /\ rtcEnv.peers[p].localDescription
  /\ LET w == [World EXCEPT !.env.peers[p].channel = "open"]
         listeners == rtcEnv.peers[p].listeners
     IN IF listeners = "sender"
          THEN LET w1 == [signalingResolve(w) EXCEPT !.svc.signalingResolve = NoCall]
               IN Leaves(IF w1.svc.pendingImage # NoImage
                           THEN sendImageUpdate(w1, w1.svc.pendingImage)
                           ELSE w1,
                         "open", rtcObs)
        ELSE IF listeners = "receiver" /\ ChannelOpen(w)
          THEN Leaves(Out(w, [kind |-> "ready", channel |-> w.svc.dataChannel]),
                      "open", rtcObs)
        ELSE Leaves(w, "open", rtcObs)

\* the 'close' event of channel p (the other side closed it, or the
\* connection failed): onClose is handleSessionEnd
RtcChannelClose(p) ==
  /\ rtcEnv.peers[p].state = "live"
  /\ rtcEnv.peers[p].channel \in {"connecting", "open"}
  /\ LET w == Out([World EXCEPT !.env.peers[p].channel = "closed"],
                  [kind |-> "event", name |-> "close", channel |-> p]) IN
     IF rtcEnv.peers[p].listeners # "none"
       THEN Leaves(handleSessionEnd(w), "close", Forget(rtcObs))
       ELSE Leaves(w, "close", rtcObs)

\* the sender's onMessage as it would be if ready were not answered
SenderOnReadyIgnored(w) == w

\* the sender's onMessage with a ready message: msg.type === 'ready' &&
\* this.pendingImage && this.dataChannel?.readyState === 'open'
SenderOnReady(w) ==
  IF w.svc.pendingImage # NoImage /\ ChannelOpen(w)
    THEN [SendImage(w, w.svc.pendingImage) EXCEPT
            !.svc.metrics.successfulMessages = @ + 1]
    ELSE w

\* what the other side sends on the data channel
Messages(listeners) ==
  IF listeners = "sender"
    THEN {[type |-> "ack"], [type |-> "ready"], [type |-> "garbage"]}
    ELSE {[type |-> "image", imageIndex |-> 0], [type |-> "garbage"]}

\* the 'message' event of channel p: onMessage of the sender or of the
\* receiver
RtcChannelMessage(p, msg) ==
  /\ rtcEnv.peers[p].state = "live"
  /\ rtcEnv.peers[p].channel = "open"
  /\ rtcEnv.peers[p].listeners # "none"
  /\ msg \in Messages(rtcEnv.peers[p].listeners)
  /\ rtcObs.messages < MaxMessages
  /\ LET obs == [rtcObs EXCEPT !.messages = @ + 1]
         w == Out(World, [kind |-> "event", name |-> "message", type |-> msg.type,
                          channel |-> p])
     IN IF rtcEnv.peers[p].listeners = "sender"
          THEN IF msg.type = "ready"
                 THEN Leaves(SenderOnReady(w), "message", obs)
                 ELSE Leaves(w, "message", obs)
        ELSE IF msg.type = "image"
          THEN LET w1 == Invoke([w EXCEPT !.svc.metrics.successfulMessages = @ + 1],
                                "imageUpdate")
               IN Leaves(IF ChannelOpen(w1)
                           THEN Out(w1, [kind |-> "ack", channel |-> rtc.dataChannel])
                           ELSE w1,
                         "message", obs)
        ELSE Leaves([w EXCEPT !.svc.metrics.failedMessages = @ + 1], "message", obs)

\* sendImageUpdate(imageIndex, imageUrl), called by the application; the
\* history keeps the index of the latest call made by the evaluator while
\* its data channel was not open, and the indices of the calls before it;
\* current is the index of the latest call of the session (the evaluator
\* has started one, which made the peer connection, and it has not ended)
RtcSendImageUpdate(imageIndex) ==
  /\ rtcObs.sendCalls < MaxRtcSends
  /\ LET waiting == /\ rtc.role = "evaluator"
                    /\ rtc.dataChannel # NoPeer
                    /\ ~ChannelOpen(World)
     IN Leaves(sendImageUpdate(World, imageIndex), "sendImageUpdate()",
               [rtcObs EXCEPT
                  !.sendCalls = @ + 1,
                  !.latest = IF waiting THEN imageIndex ELSE @,
                  !.current = IF rtc.role = "evaluator" /\ rtc.pc # NoPeer
                                THEN imageIndex ELSE @,
                  !.earlier = IF waiting /\ rtcObs.latest # NoImage
                                THEN @ \cup {rtcObs.latest} ELSE @])

\* endSession() as it would be if the state were cleared only when the
\* relay can be told
RtcEndSessionWhenNotified ==
  /\ rtc.pc # NoPeer \/ rtc.remoteUserId # NULL
  /\ LET w == closePeerConnection(World)
         w1 == IF RtcConnected /\ rtc.role = "evaluator"
                 THEN [SocketEmit(w, "end_session") EXCEPT !.svc.remoteUserId = NULL,
                                                           !.env.relaySession = TRUE]
                 ELSE World
     IN Leaves(Out(w1, [kind |-> "call", name |-> "endSession()"]),
               "endSession()", Forget(rtcObs))

\* endSession(), where it changes anything
RtcEndSession ==
  /\ rtc.pc # NoPeer \/ rtc.remoteUserId # NULL
  /\ LET w == closePeerConnection(World)
         w1 == IF RtcConnected /\ rtc.role = "evaluator"
                 THEN [SocketEmit(w, "end_session") EXCEPT !.env.relaySession = TRUE]
                 ELSE w
     IN Leaves(Out([w1 EXCEPT !.svc.remoteUserId = NULL],
                   [kind |-> "call", name |-> "endSession()"]),
               "endSession()", Forget(rtcObs))

\* onImageUpdate / onSessionStart / onSessionEnd: Set.add of a new function
RtcOn(type) ==
  /\ Cardinality(rtc.callbacks[type]) < MaxCallbacks
  /\ Leaves([World EXCEPT !.svc.callbacks[type] = @ \cup {Cardinality(@) + 1}],
            "on()", rtcObs)

NextWebRtc ==
  \/ \E r \in Roles : RtcConnect(r)
  \/ \E flushFirst \in BOOLEAN : RtcOnConnect(flushFirst)
  \/ RtcDisconnect
  \/ RtcStartSession
  \/ \E n \in Calls : RtcEarlyTimer(n)
  \/ \E n \in Calls : RtcTimeout(n)
  \/ \E op \in rtcEnv.ops, ok \in BOOLEAN : RtcOfferStep(op, ok)
  \/ \E p \in Peers : RtcOnIceCandidate(p)
  \/ RtcOffer
  \/ \E op \in rtcEnv.ops, ok \in BOOLEAN : RtcAnswerStep(op, ok)
  \/ RtcAnswer
  \/ \E op \in rtcEnv.ops, ok \in BOOLEAN : RtcRemoteStep(op, ok)
  \/ RtcCandidate
  \/ RtcSessionStarted
  \/ RtcSessionEnded
  \/ \E p \in Peers : RtcOnDataChannel(p)
  \/ \E p \in Peers : RtcChannelOpen(p)
  \/ \E p \in Peers : RtcChannelClose(p)
  \/ \E p \in Peers, m \in Messages("sender") \cup Messages("receiver") :
       RtcChannelMessage(p, m)
  \/ \E i \in 0..1 : RtcSendImageUpdate(i)
  \/ RtcEndSession
  \/ \E t \in EventTypes : RtcOn(t)
  \/ RtcTransportLost

\* the steps that bear on the images the evaluator sends: connection and
\* session, the offer and the answer, the data channel, sendImageUpdate
NextWebRtcImages ==
  \/ \E r \in Roles : RtcConnect(r)
  \/ \E flushFirst \in BOOLEAN : RtcOnConnect(flushFirst)
  \/ RtcDisconnect
  \/ RtcStartSession
  \/ \E op \in rtcEnv.ops, ok \in BOOLEAN : RtcOfferStep(op, ok)
  \/ RtcAnswer
  \/ \E op \in rtcEnv.ops, ok \in BOOLEAN : RtcRemoteStep(op, ok)
  \/ RtcSessionEnded
  \/ \E p \in Peers : RtcChannelOpen(p)
  \/ \E p \in Peers : RtcChannelClose(p)
  \/ \E p \in Peers, m \in Messages("sender") : RtcChannelMessage(p, m)
  \/ \E i \in 0..1 : RtcSendImageUpdate(i)
  \/ RtcEndSession

\* the steps that bear on the handshake: connection and session, the
\* signals, the promise chains of both sides
NextWebRtcHandshake ==
  \/ \E r \in Roles : RtcConnect(r)
  \/ \E flushFirst \in BOOLEAN : RtcOnConnect(flushFirst)
  \/ RtcDisconnect
  \/ RtcStartSession
  \/ \E op \in rtcEnv.ops, ok \in BOOLEAN : RtcOfferStep(op, ok)
  \/ \E p \in Peers : RtcOnIceCandidate(p)
  \/ RtcOffer
  \/ \E op \in rtcEnv.ops, ok \in BOOLEAN : RtcAnswerStep(op, ok)
  \/ RtcAnswer
  \/ \E op \in rtcEnv.ops, ok \in BOOLEAN : RtcRemoteStep(op, ok)
  \/ RtcCandidate
  \/ RtcSessionEnded
  \/ \E p \in Peers : RtcOnDataChannel(p)
  \/ \E p \in Peers : RtcChannelClose(p)
  \/ RtcEndSession

\* the steps that bear on the session, its promise and the callbacks
NextWebRtcSession ==
  \/ \E r \in Roles : RtcConnect(r)
  \/ \E flushFirst \in BOOLEAN : RtcOnConnect(flushFirst)
  \/ RtcDisconnect
  \/ RtcStartSession
  \/ \E n \in Calls : RtcEarlyTimer(n)
  \/ \E n \in Calls : RtcTimeout(n)
  \/ \E op \in rtcEnv.ops, ok \in BOOLEAN : RtcOfferStep(op, ok)
  \/ RtcSessionStarted
  \/ RtcSessionEnded
  \/ RtcEndSession
  \/ \E t \in EventTypes : RtcOn(t)

\* the steps that bear on the end of a session: connection and session, the
\* handshake of both sides, the data channel, the ways a session ends
NextWebRtcClose ==
  \/ \E r \in Roles : RtcConnect(r)
  \/ \E flushFirst \in BOOLEAN : RtcOnConnect(flushFirst)
  \/ RtcDisconnect
  \/ RtcStartSession
  \/ \E op \in rtcEnv.ops, ok \in BOOLEAN : RtcOfferStep(op, ok)
  \/ RtcOffer
  \/ \E op \in rtcEnv.ops, ok \in BOOLEAN : RtcAnswerStep(op, ok)
  \/ RtcAnswer
  \/ \E op \in rtcEnv.ops, ok \in BOOLEAN : RtcRemoteStep(op, ok)
  \/ RtcSessionEnded
  \/ \E p \in Peers : RtcOnDataChannel(p)
  \/ \E p \in Peers : RtcChannelOpen(p)
  \/ \E p \in Peers : RtcChannelClose(p)
  \/ RtcEndSession
  \/ \E t \in {"sessionEnd"} : RtcOn(t)

\* the steps that bear on the end of a session as the client sees it: the
\* relay's notifications, the offer and the answer, the data channel and its
\* close event
NextWebRtcEnd ==
  \/ \E r \in Roles : RtcConnect(r)
  \/ \E flushFirst \in BOOLEAN : RtcOnConnect(flushFirst)
  \/ RtcDisconnect
  \/ RtcSessionStarted
  \/ RtcOffer
  \/ \E op \in rtcEnv.ops, ok \in BOOLEAN : RtcAnswerStep(op, ok)
  \/ \E p \in Peers : RtcOnDataChannel(p)
  \/ \E p \in Peers : RtcChannelOpen(p)
  \/ \E p \in Peers : RtcChannelClose(p)
  \/ RtcSessionEnded
  \/ \E t \in {"sessionEnd"} : RtcOn(t)

\* the steps that bear on the ready message and its answer: connection and
\* session, the handshake of both sides, the data channel and its messages,
\* sendImageUpdate
NextWebRtcReady ==
  \/ \E r \in Roles : RtcConnect(r)
  \/ \E flushFirst \in BOOLEAN : RtcOnConnect(flushFirst)
  \/ RtcDisconnect
  \/ RtcStartSession
  \/ \E op \in rtcEnv.ops, ok \in BOOLEAN : RtcOfferStep(op, ok)
  \/ RtcOffer
  \/ \E op \in rtcEnv.ops, ok \in BOOLEAN : RtcAnswerStep(op, ok)
  \/ RtcAnswer
  \/ \E op \in rtcEnv.ops, ok \in BOOLEAN : RtcRemoteStep(op, ok)
  \/ RtcSessionEnded
  \/ \E p \in Peers : RtcOnDataChannel(p)
  \/ \E p \in Peers : RtcChannelOpen(p)
  \/ \E p \in Peers : RtcChannelClose(p)
  \/ \E p \in Peers, m \in Messages("sender") \cup Messages("receiver") :
       RtcChannelMessage(p, m)
  \/ \E i \in 0..1 : RtcSendImageUpdate(i)
  \/ RtcEndSession

\* the steps that bear on the SDP negotiation and on the promise of
\* startSession: connection and session, the timers, the chains of both sides
NextWebRtcNegotiation ==
  \/ \E r \in Roles : RtcConnect(r)
  \/ \E flushFirst \in BOOLEAN : RtcOnConnect(flushFirst)
  \/ RtcDisconnect
  \/ RtcStartSession
  \/ \E n \in Calls : RtcEarlyTimer(n)
  \/ \E n \in Calls : RtcTimeout(n)
  \/ \E op \in rtcEnv.ops, ok \in BOOLEAN : RtcOfferStep(op, ok)
  \/ RtcOffer
  \/ \E op \in rtcEnv.ops, ok \in BOOLEAN : RtcAnswerStep(op, ok)
  \/ RtcAnswer
  \/ \E op \in rtcEnv.ops, ok \in BOOLEAN : RtcRemoteStep(op, ok)
  \/ RtcEndSession

\* the steps that bear on the signalling socket and its reconnection:
\* connection and session, the signals both sides send, the loss of the
\* transport
NextWebRtcReconnect ==
  \/ \E r \in Roles : RtcConnect(r)
  \/ \E flushFirst \in BOOLEAN : RtcOnConnect(flushFirst)
  \/ RtcTransportLost
  \/ RtcDisconnect
  \/ RtcStartSession
  \/ \E op \in rtcEnv.ops, ok \in BOOLEAN : RtcOfferStep(op, ok)
  \/ \E p \in Peers : RtcOnIceCandidate(p)
  \/ RtcOffer
  \/ \E op \in rtcEnv.ops, ok \in BOOLEAN : RtcAnswerStep(op, ok)
  \/ RtcSessionStarted
  \/ RtcSessionEnded
  \/ RtcEndSession

\* the steps that bear on the sockets an adapter owns
NextSocketIoConnect ==
  \/ \E r \in Roles : SioConnect(r)
  \/ SioOnConnect
  \/ SioAbandonedOnConnect
  \/ SioTransportLost
  \/ SioDisconnect
  \/ \E c \in ClientIds : SioStartSession(c)
  \/ SioEndSession
  \/ \E t \in EventTypes : SioOn(t)
  \/ SioRelayHandles
  \/ SioReceives

\* the steps that bear on a session and on the promise of startSession
NextSocketIoSession ==
  \/ \E r \in Roles : SioConnect(r)
  \/ SioOnConnect
  \/ SioTransportLost
  \/ SioDisconnect
  \/ \E c \in ClientIds : SioStartSession(c)
  \/ SioEndSession
  \/ SioRelayHandles
  \/ SioReceives

\* ------------------------------------------------------------------------
\* The segment endpoint of the server (POST /api/session/segment) and its
\* store
\* ------------------------------------------------------------------------
MaxPosts == 2
MaxSegmentIndex == 0

\* a field that the request body does not have
Undefined == "undefined"
\* imageIndex is a number: absent from the body, or null in the record
UndefinedIndex == -2
NullIndex == -1

\* the request bodies: every field present or not, the strings empty or not
\* (a request without a body is the body with no field)
Bodies ==
  [sessionId : {Undefined, "s1"},
   evaluatorId : {Undefined, "", "evaluator1"},
   clientId : {Undefined, "client1"},
   imageIndex : {UndefinedIndex} \cup 0..MaxSegmentIndex,
   signedUrl : {Undefined, NULL, "", "https://bucket/a"},
   audioBase64 : {Undefined, "", "AAAA"}]

\* v == null is false
NotNullish(v) == v # Undefined /\ v # NULL

\* v is truthy (a string that is not empty)
Truthy(v) == NotNullish(v) /\ v # ""

\* v || null
OrNull(v) == IF Truthy(v) THEN v ELSE NULL

\* `${imageIndex}`
IndexString(i) == IF i = NullIndex THEN "null" ELSE ToString(i)

\* the record the handler builds from the body; receivedAt is Date.now()
StoredSegment(body, now) ==
  [sessionId |-> OrNull(body.sessionId),
   evaluatorId |-> OrNull(body.evaluatorId),
   clientId |-> OrNull(body.clientId),
   imageIndex |-> IF body.imageIndex # UndefinedIndex /\ body.imageIndex # NullIndex
                    THEN body.imageIndex ELSE NullIndex,
   signedUrl |-> OrNull(body.signedUrl),
   audioBase64 |-> OrNull(body.audioBase64),
   receivedAt |-> now]

\* a key that tells the sessions apart as well
SegmentKeyPerSession(segment) ==
  (IF segment.sessionId = NULL THEN "s" ELSE segment.sessionId) \o "_"
    \o (IF segment.evaluatorId = NULL THEN "e" ELSE segment.evaluatorId) \o "_"
    \o (IF segment.clientId = NULL THEN "c" ELSE segment.clientId) \o "_"
    \o IndexString(segment.imageIndex)

\* `${segment.evaluatorId ?? 'e'}_${segment.clientId ?? 'c'}_${segment.imageIndex}`
SegmentKey(segment) ==
  (IF segment.evaluatorId = NULL THEN "e" ELSE segment.evaluatorId) \o "_"
    \o (IF segment.clientId = NULL THEN "c" ELSE segment.clientId) \o "_"
    \o IndexString(segment.imageIndex)

\* `segment_image_${segment.imageIndex}_${segment.clientId || 'unknown'}.m4a`
RecordingFile(segment) ==
  "segment_image_" \o IndexString(segment.imageIndex) \o "_"
    \o (IF segment.clientId = NULL THEN "unknown" ELSE segment.clientId) \o ".m4a"

SegmentsInit ==
  /\ storedSegmentsByKey = [k \in {} |-> NULL]
  /\ recordings = {}
  /\ segLast = [posts |-> 0, body |-> NULL, status |-> 0, segmentId |-> NULL]

\* storedSegmentsByKey.set(key, segment)
MapSet(map, key, value) ==
  [k \in DOMAIN map \cup {key} |-> IF k = key THEN value ELSE map[k]]

\* app.post('/api/session/segment'): 400 without signedUrl and audio,
\* otherwise the record is stored under its key, the audio is written to a
\* file (saved: writeFileSync did not throw) and the key is returned
PostSegment(body, saved) ==
  /\ segLast.posts < MaxPosts
  /\ LET now == segLast.posts + 1
         segment == StoredSegment(body, now)
         key == SegmentKey(segment)
     IN
     IF ~NotNullish(body.signedUrl) /\ ~Truthy(body.audioBase64)
       THEN /\ segLast' = [posts |-> now, body |-> body, status |-> 400,
                           segmentId |-> NULL]
            /\ saved
            /\ UNCHANGED <<storedSegmentsByKey, recordings>>
       ELSE /\ storedSegmentsByKey' = MapSet(storedSegmentsByKey, key, segment)
            /\ IF segment.audioBase64 # NULL
                 THEN recordings' = IF saved THEN recordings \cup {RecordingFile(segment)}
                                    ELSE recordings
                 ELSE saved /\ UNCHANGED recordings
            /\ segLast' = [posts |-> now, body |-> body, status |-> 200,
                           segmentId |-> key]
  /\ UNCHANGED notSegments

NextSegments == \E body \in Bodies, saved \in BOOLEAN : PostSegment(body, saved)

\* ------------------------------------------------------------------------
\* The latency fields of the metrics (createDefaultLatencyMetrics,
\* WebRtcRealtimeService.recordLatency). The fields are JavaScript numbers:
\* the average is a double, and each of *, + and / on it rounds its exact
\* result to the nearest double, ties to even.
\* ------------------------------------------------------------------------
MaxSamples == 7

\* Date.now() of the sender in an image message, echoed by the ack
SentAts == {0, 2}

\* Date.now() of the receiver in the ack, read from the clock of the other
\* device
ReceivedAts == {1, 7}

\* Infinity, above every number
Infinity == 2147483647

\* the bits of the significand of a double
Precision == 53

\* A natural number of any size is the sequence of its limbs of LimbBits
\* bits, the lowest first, the highest not 0; zero is <<>>.
LimbBits == 10

Base == 2^LimbBits

RECURSIVE StripTop(_)
StripTop(a) ==
  IF a = <<>> THEN <<>>
  ELSE IF a[Len(a)] # 0 THEN a
  ELSE StripTop(SubSeq(a, 1, Len(a) - 1))

Zeros(n) == [i \in 1..n |-> 0]

\* the number of bits of a
BitLength(a) ==
  IF a = <<>> THEN 0
  ELSE LimbBits * (Len(a) - 1)
       + (CHOOSE k \in 1..LimbBits : 2^(k - 1) <= a[Len(a)] /\ a[Len(a)] < 2^k)

\* bit j of a, the lowest being bit 1
BitAt(a, j) ==
  LET i == ((j - 1) \div LimbBits) + 1
  IN IF i > Len(a) THEN 0 ELSE (a[i] \div 2^((j - 1) % LimbBits)) % 2

\* the bits 1..j of a are 0
LowZero(a, j) == \A i \in 1..j : BitAt(a, i) = 0

\* a with its n lowest bits dropped
ShiftRight(a, n) ==
  LET k == n % LimbBits
      b == SubSeq(a, (n \div LimbBits) + 1, Len(a))
  IN StripTop([i \in 1..Len(b) |->
                 (b[i] \div 2^k)
                 + (IF i < Len(b) THEN (b[i + 1] % 2^k) * 2^(LimbBits - k) ELSE 0)])

\* a with n bits 0 below it
ShiftLeft(a, n) ==
  LET k == n % LimbBits
      b == [i \in 1..(Len(a) + 1) |->
              ((IF i <= Len(a) THEN a[i] % 2^(LimbBits - k) ELSE 0) * 2^k)
              + (IF i > 1 THEN a[i - 1] \div 2^(LimbBits - k) ELSE 0)]
  IN IF a = <<>> THEN <<>> ELSE Zeros(n \div LimbBits) \o StripTop(b)

\* a number with its mantissa made odd
StripLow(x) ==
  IF x.bits = <<>> THEN [neg |-> FALSE, bits |-> <<>>, exp |-> 0]
  ELSE LET n == CHOOSE m \in 0..(BitLength(x.bits) - 1) :
                  BitAt(x.bits, m + 1) = 1 /\ LowZero(x.bits, m)
       IN [neg |-> x.neg, bits |-> ShiftRight(x.bits, n), exp |-> x.exp + n]

RECURSIVE BAdd(_, _, _)
BAdd(a, b, carry) ==
  IF a = <<>> /\ b = <<>> THEN (IF carry = 1 THEN <<1>> ELSE <<>>)
  ELSE LET x == IF a = <<>> THEN 0 ELSE Head(a)
           y == IF b = <<>> THEN 0 ELSE Head(b)
           t == x + y + carry
       IN <<t % Base>> \o BAdd(IF a = <<>> THEN a ELSE Tail(a),
                               IF b = <<>> THEN b ELSE Tail(b), t \div Base)

\* a - b - borrow for a >= b, the top zeros kept
RECURSIVE BSub(_, _, _)
BSub(a, b, borrow) ==
  IF a = <<>> THEN <<>>
  ELSE LET y == IF b = <<>> THEN 0 ELSE Head(b)
           t == Head(a) - y - borrow
       IN <<(t + Base) % Base>> \o BSub(Tail(a), IF b = <<>> THEN b ELSE Tail(b),
                                        IF t < 0 THEN 1 ELSE 0)

\* a < b
BLess(a, b) ==
  \/ Len(a) < Len(b)
  \/ /\ Len(a) = Len(b)
     /\ \E i \in 1..Len(a) : /\ a[i] < b[i]
                             /\ \A j \in (i + 1)..Len(a) : a[j] = b[j]

\* a * k + carry for k and carry below Base
RECURSIVE BMul(_, _, _)
BMul(a, k, carry) ==
  IF a = <<>> THEN (IF carry = 0 THEN <<>> ELSE <<carry>>)
  ELSE LET t == Head(a) * k + carry
       IN <<t % Base>> \o BMul(Tail(a), k, t \div Base)

\* the limbs 1..i of a, with r carried in from above, divided by n: the
\* quotient and what remains
RECURSIVE BDiv(_, _, _, _)
BDiv(a, i, r, n) ==
  IF i = 0 THEN [q |-> <<>>, r |-> r]
  ELSE LET t == Base * r + a[i]
           low == BDiv(a, i - 1, t % n, n)
       IN [q |-> Append(low.q, t \div n), r |-> low.r]

RECURSIVE Limbs(_)
Limbs(n) == IF n = 0 THEN <<>> ELSE <<n % Base>> \o Limbs(n \div Base)

\* A number is a sign, the limbs of an odd natural and an exponent of two;
\* zero has no limbs. The number of an integer:
Num(n) ==
  StripLow([neg |-> n < 0, bits |-> Limbs(IF n < 0 THEN -n ELSE n), exp |-> 0])

\* the exact value x (with something below its lowest bit when sticky)
\* rounded to the nearest double, ties to even
RoundToDouble(x, sticky) ==
  IF BitLength(x.bits) <= Precision THEN StripLow(x)
  ELSE LET d == BitLength(x.bits) - Precision
           kept == ShiftRight(x.bits, d)
           rest == sticky \/ ~LowZero(x.bits, d - 1)
           up == BitAt(x.bits, d) = 1 /\ (rest \/ BitAt(kept, 1) = 1)
       IN StripLow([neg |-> x.neg,
                    bits |-> IF up THEN BAdd(kept, <<1>>, 0) ELSE kept,
                    exp |-> x.exp + d])

\* x * k for a natural k below Base, exactly
Product(x, k) ==
  StripLow([neg |-> x.neg, bits |-> StripTop(BMul(x.bits, k, 0)), exp |-> x.exp])

\* x + y, exactly
Sum(x, y) ==
  LET e == IF x.exp < y.exp THEN x.exp ELSE y.exp
      a == ShiftLeft(x.bits, x.exp - e)
      b == ShiftLeft(y.bits, y.exp - e)
  IN IF x.bits = <<>> THEN y
     ELSE IF y.bits = <<>> THEN x
     ELSE IF x.neg = y.neg
       THEN StripLow([neg |-> x.neg, bits |-> BAdd(a, b, 0), exp |-> e])
     ELSE IF BLess(a, b)
       THEN StripLow([neg |-> y.neg, bits |-> StripTop(BSub(b, a, 0)), exp |-> e])
     ELSE StripLow([neg |-> x.neg, bits |-> StripTop(BSub(a, b, 0)), exp |-> e])

\* the operators of JavaScript on numbers: x * k, x + y and x / n
Times(x, k) == RoundToDouble(Product(x, k), FALSE)

Plus(x, y) == RoundToDouble(Sum(x, y), FALSE)

Over(x, n) ==
  LET pad == Precision + LimbBits
      d == BDiv(ShiftLeft(x.bits, pad), Len(ShiftLeft(x.bits, pad)), 0, n)
  IN IF x.bits = <<>> THEN x
     ELSE RoundToDouble([neg |-> x.neg, bits |-> StripTop(d.q),
                         exp |-> x.exp - pad], d.r # 0)

MathMin(a, b) == IF a = Infinity THEN b ELSE IF b < a THEN b ELSE a

MathMax(a, b) == IF a < b THEN b ELSE a

\* createDefaultLatencyMetrics(), the latency fields
DefaultLatency ==
  [lastLatencyMs |-> 0, avgLatencyMs |-> Num(0), minLatencyMs |-> Infinity,
   maxLatencyMs |-> 0, sampleCount |-> 0]

LatencyInit ==
  /\ latency = DefaultLatency
  /\ acks = <<>>

\* recordLatency with the sum weighted by the new count
recordLatencyWeightedByCount(m, ms) ==
  LET count == m.sampleCount + 1
      sum == Plus(Times(m.avgLatencyMs, count), Num(ms))
  IN [lastLatencyMs |-> ms,
      sampleCount |-> count,
      avgLatencyMs |-> Over(sum, count),
      minLatencyMs |-> MathMin(m.minLatencyMs, ms),
      maxLatencyMs |-> MathMax(m.maxLatencyMs, ms)]

\* recordLatency(ms)
recordLatency(m, ms) ==
  LET count == m.sampleCount + 1
      sum == Plus(Times(m.avgLatencyMs, count - 1), Num(ms))
  IN [lastLatencyMs |-> ms,
      sampleCount |-> count,
      avgLatencyMs |-> Over(sum, count),
      minLatencyMs |-> MathMin(m.minLatencyMs, ms),
      maxLatencyMs |-> MathMax(m.maxLatencyMs, ms)]

\* onMessage for an ack whose sentAt and receivedAt are numbers
OnAck(sentAt, receivedAt) ==
  /\ Len(acks) < MaxSamples
  /\ latency' = recordLatency(latency, receivedAt - sentAt)
  /\ acks' = Append(acks, [sentAt |-> sentAt, receivedAt |-> receivedAt])
  /\ UNCHANGED notLatency

NextLatency == \E sentAt \in SentAts, receivedAt \in ReceivedAts : OnAck(sentAt, receivedAt)

\* ------------------------------------------------------------------------
\* The WebSocket SocketService (class SocketService): connect, disconnect,
\* the handlers of its WebSockets, the connection timeout and the reconnect
\* timer
\* ------------------------------------------------------------------------
MaxWebSockets == 4

MAX_RECONNECT_ATTEMPTS == 5

WebSocketIds == 1..MaxWebSockets

\* this.socket when it is null, this.reconnectTimer when it is null
NoWebSocket == 0

NoTimer == 0

\* options.autoReconnect as the caller gives it
AutoReconnectGiven == {"undefined", "true", "false"}

\* options.maxReconnectAttempts as the caller gives it; 0 stands for a
\* missing value as well, both are falsy
MaxAttemptsGiven == {0, 1, 2}

\* a WebSocket: its readyState, and whether the connection timeout armed
\* when it was created is pending
NotCreated == [readyState |-> "none", timeout |-> FALSE]

WebSocketInit ==
  /\ ws = [socket |-> NoWebSocket, connectionStatus |-> "disconnected",
           reconnectAttempts |-> 0, reconnectTimer |-> NoTimer,
           options |-> [autoReconnect |-> FALSE, maxReconnectAttempts |-> 0]]
  /\ wsEnv = [sockets |-> [s \in WebSocketIds |-> NotCreated], created |-> 0,
              timers |-> {}, armed |-> 0]
  /\ wsObs = [last |-> "none", disconnected |-> FALSE, sinceOpen |-> 0,
              sinceReset |-> 0]

\* the service and its surroundings, threaded through the methods
WsWorld == [svc |-> ws, env |-> wsEnv]

\* socket.close() on socket s
WsCloseSocket(w, s) ==
  IF s # NoWebSocket /\ w.env.sockets[s].readyState \in {"connecting", "open"}
    THEN [w EXCEPT !.env.sockets[s].readyState = "closing"]
  ELSE w

\* the options merged with the defaults
MergedOptions(autoReconnect, maxReconnectAttempts) ==
  [autoReconnect |-> IF autoReconnect = "undefined" THEN TRUE
                     ELSE autoReconnect = "true",
   maxReconnectAttempts |-> IF maxReconnectAttempts = 0
                              THEN MAX_RECONNECT_ATTEMPTS
                            ELSE maxReconnectAttempts]

\* connect(options), the options merged already; a new WebSocket unless
\* the service has a socket and is CONNECTED
connect(w, options) ==
  LET merged == [w EXCEPT !.svc.options = options]
      s == w.env.created + 1
  IN IF w.svc.socket # NoWebSocket /\ w.svc.connectionStatus = "connected"
       THEN merged
     ELSE [merged EXCEPT !.svc.connectionStatus = "connecting",
                         !.svc.socket = s,
                         !.env.created = s,
                         !.env.sockets[s] = [readyState |-> "connecting",
                                             timeout |-> TRUE]]

\* connect() would create a WebSocket, and the model has one left
WsCanConnect ==
  \/ ws.socket # NoWebSocket /\ ws.connectionStatus = "connected"
  \/ wsEnv.created < MaxWebSockets

\* disconnect()
disconnect(w) ==
  LET cleared == IF w.svc.reconnectTimer # NoTimer
                   THEN [w EXCEPT !.env.timers = @ \ {w.svc.reconnectTimer},
                                  !.svc.reconnectTimer = NoTimer]
                 ELSE w
      closed == IF cleared.svc.socket # NoWebSocket
                  THEN [WsCloseSocket(cleared, cleared.svc.socket)
                          EXCEPT !.svc.socket = NoWebSocket]
                ELSE cleared
  IN [closed EXCEPT !.svc.connectionStatus = "disconnected",
                    !.svc.reconnectAttempts = 0]

handleOpen(w) ==
  [w EXCEPT !.svc.connectionStatus = "connected", !.svc.reconnectAttempts = 0]

handleError(w) == [w EXCEPT !.svc.connectionStatus = "error"]

attemptReconnect(w) ==
  [w EXCEPT !.svc.reconnectAttempts = @ + 1,
            !.svc.connectionStatus = "reconnecting",
            !.svc.reconnectTimer = w.env.armed + 1,
            !.env.armed = @ + 1,
            !.env.timers = @ \cup {w.env.armed + 1}]

\* handleClose with a reconnection whatever the counter is
handleCloseUncounted(w) ==
  LET down == [w EXCEPT !.svc.connectionStatus = "disconnected"]
  IN IF down.svc.options.autoReconnect THEN attemptReconnect(down) ELSE down

handleClose(w) ==
  LET down == [w EXCEPT !.svc.connectionStatus = "disconnected"]
  IN IF /\ down.svc.options.autoReconnect
        /\ down.svc.reconnectAttempts < down.svc.options.maxReconnectAttempts
       THEN attemptReconnect(down)
     ELSE down

\* a step leaves the service and its surroundings as w has them; the
\* history tells whether disconnect() was the last call of the application,
\* and counts the reconnections attempted since the last open, and since
\* the last open or disconnect()
WsLeaves(w, event) ==
  LET attempts == IF w.env.armed > wsEnv.armed THEN 1 ELSE 0 IN
  /\ ws' = w.svc
  /\ wsEnv' = w.env
  /\ wsObs' = [last |-> event,
               disconnected |-> IF event = "disconnect" THEN TRUE
                                ELSE IF event = "connect" THEN FALSE
                                ELSE wsObs.disconnected,
               sinceOpen |-> IF event = "open" THEN 0
                             ELSE wsObs.sinceOpen + attempts,
               sinceReset |-> IF event \in {"open", "disconnect"} THEN 0
                              ELSE wsObs.sinceReset + attempts]
  /\ UNCHANGED notWebSocket

\* the application calls connect(options)
WsConnect(autoReconnect, maxReconnectAttempts) ==
  /\ WsCanConnect
  /\ WsLeaves(connect(WsWorld, MergedOptions(autoReconnect, maxReconnectAttempts)),
              "connect")

\* the application calls disconnect(), where it was not its last call
WsDisconnect ==
  /\ wsObs.last # "disconnect"
  /\ WsLeaves(disconnect(WsWorld), "disconnect")

\* socket s opens: its onopen clears the timeout armed with it and runs
\* handleOpen
WsOnOpen(s) ==
  /\ wsEnv.sockets[s].readyState = "connecting"
  /\ WsLeaves(handleOpen([WsWorld EXCEPT !.env.sockets[s] =
                            [readyState |-> "open", timeout |-> FALSE]]),
              "open")

\* socket s fails: its onerror runs handleError, its close event follows
WsOnError(s) ==
  /\ wsEnv.sockets[s].readyState \in {"connecting", "open"}
  /\ WsLeaves(handleError([WsWorld EXCEPT !.env.sockets[s].readyState = "closing"]),
              "error")

\* the close event of socket s, closed by the service, by the server or
\* after a failure: its onclose runs handleClose
WsOnClose(s) ==
  /\ wsEnv.sockets[s].readyState \in {"open", "closing"}
  /\ WsLeaves(handleClose([WsWorld EXCEPT !.env.sockets[s].readyState = "closed"]),
              "close")

\* the connection timeout armed with socket s fires
WsTimeout(s) ==
  /\ wsEnv.sockets[s].timeout
  /\ LET fired == [WsWorld EXCEPT !.env.sockets[s].timeout = FALSE]
         failed == handleError(fired)
     IN WsLeaves(IF ws.connectionStatus = "connecting"
                   THEN WsCloseSocket(failed, failed.svc.socket)
                 ELSE fired,
                 "timeout")

\* reconnect timer t fires: connect(this.options)
WsReconnectTimer(t) ==
  /\ t \in wsEnv.timers
  /\ WsCanConnect
  /\ WsLeaves(connect([WsWorld EXCEPT !.env.timers = @ \ {t}], ws.options),
              "reconnect")

NextWebSocket ==
  \/ \E a \in AutoReconnectGiven, m \in MaxAttemptsGiven : WsConnect(a, m)
  \/ WsDisconnect
  \/ \E s \in WebSocketIds : WsOnOpen(s)
  \/ \E s \in WebSocketIds : WsOnError(s)
  \/ \E s \in WebSocketIds : WsOnClose(s)
  \/ \E s \in WebSocketIds : WsTimeout(s)
  \/ \E t \in 1..wsEnv.armed : WsReconnectTimer(t)

\* ------------------------------------------------------------------------
\* The MQTT adapters (MqttRealtimeService) and the broker: every user has a
\* connected service object of its role; the broker delivers a message at
\* least once, and keeps no order between the messages it holds
\* ------------------------------------------------------------------------
MaxPublishes == 4
MaxDuplicates == 1

\* createDefaultLatencyMetrics(): the counters of interest
MqttMetrics == [successfulMessages |-> 0, failedMessages |-> 0, sampleCount |-> 0]

\* the payload of a message: whether JSON.parse takes it, and the fields of
\* the parsed object ("undefined" where it has none)
Malformed == [json |-> FALSE, evaluatorId |-> NoUser, sentAt |-> FALSE,
              receivedAt |-> FALSE]
Json(evaluatorId, sentAt, receivedAt) ==
  [json |-> TRUE, evaluatorId |-> evaluatorId, sentAt |-> sentAt,
   receivedAt |-> receivedAt]

NoMessage == [topic |-> "none", to |-> NoUser, from |-> NoUser, payload |-> Malformed,
              n |-> 0]

MqttInit ==
  /\ mqtt = [u \in UserIds |->
               [role |-> RoleOf(u), currentClientId |-> NULL,
                currentEvaluatorId |-> NULL, metrics |-> MqttMetrics]]
  /\ broker = [inflight |-> {}, published |-> 0, duplicates |-> 0]
  /\ mqttObs = [handled |-> NoMessage, acks |-> {}]

\* clientTopic(clientId, suffix) and evaluatorAckTopic(evaluatorId): a
\* message on the topic, with what its payload holds; from is the publisher
\* and n the number of the publication, which the payload of an image or
\* end message does not carry
Message(topic, to, from, payload) ==
  [topic |-> topic, to |-> to, from |-> from, payload |-> payload,
   n |-> broker.published + 1]

\* this.client.publish(topic, ...)
Publish(m) ==
  [broker EXCEPT !.inflight = @ \cup {m}, !.published = @ + 1]

\* startSession(clientId) of evaluator e
MqttStartSession(e, clientId) ==
  /\ mqtt[e].role = "evaluator"
  /\ broker.published < MaxPublishes
  /\ mqtt' = [mqtt EXCEPT ![e].currentClientId = clientId]
  /\ broker' = Publish(Message("start", clientId, e, Json(e, FALSE, FALSE)))
  /\ mqttObs' = [handled |-> NoMessage, acks |-> {}]
  /\ UNCHANGED notMqtt

\* sendImageUpdate(imageIndex, imageUrl) of evaluator e; sentAt is
\* Date.now(), a number that is not 0
MqttSendImageUpdate(e) ==
  /\ broker.published < MaxPublishes
  /\ IF mqtt[e].role # "evaluator" \/ mqtt[e].currentClientId = NULL
       THEN /\ mqtt' = [mqtt EXCEPT ![e].metrics.failedMessages = @ + 1]
            /\ broker' = [broker EXCEPT !.published = @ + 1]
       ELSE /\ mqtt' = [mqtt EXCEPT ![e].metrics.successfulMessages = @ + 1]
            /\ broker' = Publish(Message("image", mqtt[e].currentClientId, e,
                                          Json(NoUser, TRUE, FALSE)))
  /\ mqttObs' = [handled |-> NoMessage, acks |-> {}]
  /\ UNCHANGED notMqtt

\* endSession() of evaluator e, where it changes anything
MqttEndSession(e) ==
  /\ mqtt[e].role = "evaluator"
  /\ mqtt[e].currentClientId # NULL
  /\ broker.published < MaxPublishes
  /\ mqtt' = [mqtt EXCEPT ![e].currentClientId = NULL]
  /\ broker' = Publish(Message("end", mqtt[e].currentClientId, e,
                               Json(NoUser, FALSE, FALSE)))
  /\ mqttObs' = [handled |-> NoMessage, acks |-> {}]
  /\ UNCHANGED notMqtt

\* a payload that is not JSON is published on a topic of a user (the broker
\* takes any payload)
MqttPublishMalformed(topic, u) ==
  /\ broker.published < MaxPublishes
  /\ topic = "acks" <=> RoleOf(u) = "evaluator"
  /\ broker' = Publish(Message(topic, u, NoUser, Malformed))
  /\ mqttObs' = [handled |-> NoMessage, acks |-> {}]
  /\ UNCHANGED mqtt
  /\ UNCHANGED notMqtt

\* the 'message' handler of a client (role === 'client'): the service after
\* it, and the evaluators to whose ack topic it published
ClientOnMessage(svc, m) ==
  IF ~m.payload.json
    THEN [svc |-> [svc EXCEPT !.metrics.failedMessages = @ + 1], acks |-> {}]
  ELSE IF m.topic = "start"
    THEN [svc |-> [svc EXCEPT !.currentEvaluatorId =
                     IF m.payload.evaluatorId = NoUser THEN NULL
                     ELSE m.payload.evaluatorId],
          acks |-> {}]
  ELSE IF m.topic = "image"
    THEN [svc |-> [svc EXCEPT !.metrics.successfulMessages = @ + 1,
                              !.metrics.sampleCount = @ + 1],
          acks |-> IF svc.currentEvaluatorId # NULL /\ m.payload.sentAt
                     THEN {svc.currentEvaluatorId} ELSE {}]
  ELSE [svc |-> [svc EXCEPT !.currentEvaluatorId = NULL], acks |-> {}]

\* the 'message' handler of an evaluator (role === 'evaluator'): an ack is
\* recorded as a latency sample, a parse error is ignored
EvaluatorOnMessage(svc, m) ==
  IF ~m.payload.json THEN svc
  ELSE IF m.payload.sentAt /\ m.payload.receivedAt
    THEN [svc EXCEPT !.metrics.sampleCount = @ + 1]
  ELSE svc

\* the broker delivers m to its subscriber; again when it will deliver it
\* once more
MqttDeliver(m, again) ==
  /\ m \in broker.inflight
  /\ again => broker.duplicates < MaxDuplicates
  /\ LET rest == [broker EXCEPT
                    !.inflight = IF again THEN @ ELSE @ \ {m},
                    !.duplicates = IF again THEN @ + 1 ELSE @]
     IN IF mqtt[m.to].role = "client"
          THEN LET after == ClientOnMessage(mqtt[m.to], m) IN
               /\ mqtt' = [mqtt EXCEPT ![m.to] = after.svc]
               /\ broker' = [rest EXCEPT !.inflight = @ \cup
                                {[topic |-> "acks", to |-> e, from |-> m.to,
                                  payload |-> Json(NoUser, m.payload.sentAt, TRUE),
                                  n |-> m.n] : e \in after.acks}]
               /\ mqttObs' = [handled |-> m, acks |-> after.acks]
          ELSE /\ mqtt' = [mqtt EXCEPT ![m.to] = EvaluatorOnMessage(mqtt[m.to], m)]
               /\ broker' = rest
               /\ mqttObs' = [handled |-> m, acks |-> {}]
  /\ UNCHANGED notMqtt

NextMqtt ==
  \/ \E e \in UserIds, c \in ClientIds : MqttStartSession(e, c)
  \/ \E e \in UserIds : MqttSendImageUpdate(e)
  \/ \E e \in UserIds : MqttEndSession(e)
  \/ \E topic \in {"start", "image", "end", "acks"}, u \in UserIds :
       MqttPublishMalformed(topic, u)
  \/ \E m \in broker.inflight, again \in BOOLEAN : MqttDeliver(m, again)

\* ------------------------------------------------------------------------
\* Specifications
\* ------------------------------------------------------------------------
Init ==
  /\ CaptureInit /\ RelayInit /\ SocketIoInit /\ WebRtcInit /\ SegmentsInit
  /\ PresenceInit /\ LatencyInit /\ WebSocketInit /\ MqttInit

SpecSegments == Init /\ [][NextSegments]_vars

SpecCapture == Init /\ [][NextCapture]_vars

SpecRelay == Init /\ [][NextRelay]_vars

SpecRelaySignal == Init /\ [][NextRelaySignal]_vars

SpecRelaySession == Init /\ [][NextRelaySession]_vars

SpecMqtt == Init /\ [][NextMqtt]_vars

SpecClients == Init /\ [][NextClients]_vars

SpecLatency == Init /\ [][NextLatency]_vars

SpecWebSocket == Init /\ [][NextWebSocket]_vars

SpecSocketIo == Init /\ [][NextSocketIo]_vars

SpecSocketIoConnect == Init /\ [][NextSocketIoConnect]_vars

\* what runs without anybody's doing: the connection is established or
\* re-established, the relay handles what it was sent, and what it sent is
\* delivered.  The calls of the application and the loss of the transport
\* may or may not happen.
SocketIoFairness ==
  /\ WF_vars(SioOnConnect)
  /\ WF_vars(SioRelayHandles)
  /\ WF_vars(SioReceives)

SpecWebRtc == Init /\ [][NextWebRtc]_vars

SpecWebRtcImages == Init /\ [][NextWebRtcImages]_vars

SpecWebRtcHandshake == Init /\ [][NextWebRtcHandshake]_vars

SpecWebRtcSession == Init /\ [][NextWebRtcSession]_vars

SpecWebRtcClose == Init /\ [][NextWebRtcClose]_vars

SpecWebRtcNegotiation == Init /\ [][NextWebRtcNegotiation]_vars

SpecWebRtcReconnect == Init /\ [][NextWebRtcReconnect]_vars

SpecWebRtcEnd == Init /\ [][NextWebRtcEnd]_vars

SpecWebRtcReady == Init /\ [][NextWebRtcReady]_vars

SpecSocketIoSession ==
  Init /\ [][NextSocketIoSession]_vars /\ SocketIoFairness

\* ------------------------------------------------------------------------
\* Properties of the capture logic
\* ------------------------------------------------------------------------
Sessions == 0..MaxEnds

FlushesOf(sess) ==
  SelectSeq(log, LAMBDA e : e.op = "flush" /\ e.session = sess)

Count(seq, P(_)) == Len(SelectSeq(seq, P))

\* number of maximal runs of equal index in a sequence of deliveries
Runs(seq) ==
  Cardinality({k \in DOMAIN seq : k = 1 \/ seq[k] # seq[k - 1]})

\* session sess has ended and none of its handlers is still suspended
SessionOver(sess) ==
  /\ ended > sess
  /\ \A h \in BagToSet(handlers) : h.session # sess

\* C1: within one session at most one segment record is submitted per
\* distinct imageIndex, whatever the deliveries (duplicates, out of order,
\* return to an index shown earlier).
C1_OneSegmentPerIndex ==
  \A sess \in Sessions, i \in Indices :
    Count(FlushesOf(sess), LAMBDA e : e.imageIndex = i) <= 1

\* the flushes the claim C2 expects for the deliveries seq of a session whose
\* update handlers flushed the indices in flushed
ExpectedFlushes(seq, flushed) ==
  IF seq = <<>> THEN 0
  ELSE (Runs(seq) - 1) + (IF seq[Len(seq)] \in flushed THEN 0 ELSE 1)

\* C2: once a session is over, its number of flushes is (maximal runs of
\* equal imageIndex - 1) plus one final flush when the last image was not
\* flushed before; deliveries 0, 1, 1, 2 then session end give exactly the
\* three records 0, 1, 2.
C2_FlushCountByRuns ==
  \A sess \in Sessions :
    SessionOver(sess) =>
      LET fl == FlushesOf(sess)
          flushed == {fl[k].imageIndex : k \in {j \in DOMAIN fl : fl[j].by = "update"}}
      IN /\ Len(fl) = ExpectedFlushes(atEnd[sess + 1], flushed)
         /\ atEnd[sess + 1] = <<0, 1, 1, 2>> =>
               [k \in DOMAIN fl |-> fl[k].imageIndex] = <<0, 1, 2>>

\* C3: an image update whose index equals the index of the update delivered
\* immediately before causes no flush and no capture-begin.
C3_RepeatDoesNothing ==
  \A k \in DOMAIN log : ~log[k].repeat

\* the capture-begin and flush actions of session sess, in order
LogOf(sess) == SelectSeq(log, LAMBDA e : e.session = sess)

\* C25: the handlers of one session act on the capture state one after the
\* other: a capture is begun only after the one before it was flushed, and
\* what is flushed is the image whose capture was begun last, so that no
\* image is flushed by two handlers and no two captures are begun for one
\* image.
C25_CaptureMutationsSerialized ==
  \A sess \in Sessions :
    LET l == LogOf(sess) IN
    \A k \in DOMAIN l :
      /\ l[k].op = "begin" => (k = 1 \/ l[k - 1].op = "flush")
      /\ l[k].op = "flush" => /\ k > 1
                              /\ l[k - 1].op = "begin"
                              /\ l[k - 1].imageIndex = l[k].imageIndex

\* C27: when a session is over (its end was handled and none of its handlers
\* is suspended), every capture begun in it was stopped: its begins and its
\* flushes (stopRecording, then submitSegment) are as many, and the last of
\* them is not a begin.
C27_EveryCaptureStopped ==
  \A sess \in Sessions :
    SessionOver(sess) =>
      LET l == LogOf(sess) IN
      /\ Count(l, LAMBDA e : e.op = "begin") = Count(l, LAMBDA e : e.op = "flush")
      /\ l # <<>> => l[Len(l)].op = "flush"

\* the handlers (or segments) that the step added to a bag
Added(bag, bagAfter) ==
  {e \in BagToSet(bagAfter) : CopiesIn(e, bagAfter) > CopiesIn(e, bag)}

\* C28: an image update with index i starts the flush of the previous image
\* exactly when a previous image exists, a capture is active and its index
\* differs from i; the segment then submitted carries the index and the
\* signed reference of that previous image, not those of the image that
\* arrived.
C28_FlushIffPreviousDiffers ==
  [][/\ deliveries' = deliveries + 1 =>
          LET i == delivered'[Len(delivered')]
              flushing == {h \in Added(handlers, handlers') : h.pc = "stop"}
          IN /\ flushing # {} <=> (/\ previousRef # NullRef
                                    /\ recordingStartedRef
                                    /\ previousRef.imageIndex # i)
             /\ \A h \in flushing : h.prev = previousRef /\ h.index = i
     /\ \A p \in Added(inflight, inflight') :
          p.by = "update" =>
            \E h \in Added(handlers', handlers) :
              /\ h.kind = "update" /\ h.pc = "stop"
              /\ p.imageIndex = h.prev.imageIndex
              /\ p.signedUrl = h.prev.signedUrl
              /\ p.imageIndex # h.index
              /\ passesSignedUrl => p.signedUrl # h.url
    ]_vars

\* image 1 arrived while image 0 was shown and recorded: the segment
\* submitted carries index 0 and the signed reference of image 0
C28_Witness ==
  /\ passesSignedUrl
  /\ delivered = <<0, 1>>
  /\ \E p \in BagToSet(inflight) :
        p.by = "update" /\ p.imageIndex = 0 /\ p.signedUrl = SignedUrlOf(0)
  /\ \E h \in BagToSet(handlers) : h.kind = "update" /\ h.pc = "start" /\ h.index = 1

\* the indices flushed so far in session sess
FlushedIn(sess) ==
  {FlushesOf(sess)[k].imageIndex : k \in DOMAIN FlushesOf(sess)}

\* C29: session end starts one final flush exactly when a previous image
\* exists, a capture is active and the index of that image was not flushed
\* before in the session, an index being flushed from the moment of its
\* flush.
C29_FinalFlushIffNotFlushed ==
  [][ended' = ended + 1 =>
       ({h \in Added(handlers, handlers') : h.kind = "end"} # {}
          <=> (/\ previousRef # NullRef
               /\ recordingStartedRef
               /\ previousRef.imageIndex \notin FlushedIn(ended)))
    ]_vars

\* the capture-begins of l between its position from (exclusive) and its
\* position to
BeginsBetween(l, from, to) ==
  Cardinality({j \in DOMAIN l : from < j /\ j < to /\ l[j].op = "begin"})

\* the position of the last flush of l before position k, 0 when none
FlushBefore(l, k) ==
  LET before == {j \in DOMAIN l : j < k /\ l[j].op = "flush"}
  IN IF before = {} THEN 0 ELSE CHOOSE j \in before : \A m \in before : m <= j

\* C32: a capture is begun on an image update exactly when there is no
\* previous image or the index of the previous image differs, so that in a
\* session exactly one capture is begun between two consecutive flushes, and
\* exactly one before the first flush.
C32_OneBeginBetweenFlushes ==
  \A sess \in Sessions :
    LET l == LogOf(sess) IN
    \A k \in DOMAIN l :
      l[k].op = "flush" => BeginsBetween(l, FlushBefore(l, k), k) = 1

\* the end of a session has been handled to its end, and no image update
\* has been delivered since
SessionEndHandled ==
  /\ ended > 0
  /\ delivered = <<>>
  /\ \A h \in BagToSet(handlers) : h.kind # "end"

\* C33: once the end of a session has been handled, the capture state is
\* empty and stays so until the next image update, also when a segment
\* submitted during the session is answered after the session has ended: in
\* particular the set of flushed indices is empty, so that no index flushed
\* in the session suppresses the final flush of the next one.
C33_EmptyAfterSessionEnd ==
  SessionEndHandled => sentImageIndicesRef = {}

\* ------------------------------------------------------------------------
\* Properties of the relay
\* ------------------------------------------------------------------------
\* evaluator e has a session record whose client connection is live, and a
\* live connection of its own
ActiveSession(e) ==
  /\ evaluatorSessions[e] # NoSession
  /\ evaluatorSessions[e].clientSocketId \in sockets
  /\ \E t \in sockets : socketProps[t].userId = e /\ socketProps[t].role = "evaluator"

SessionEnded(t) == Emit(t, "session_ended", "{}")

\* user u has a live connection registered as a client with package pkg
LiveClient(u, pkg) ==
  \E s \in sockets : /\ socketProps[s].userId = u
                     /\ socketProps[s].role = "client"
                     /\ socketProps[s].package = pkg

\* user u has a presence entry with package pkg that is not older than the
\* threshold
FreshPresence(u, pkg) ==
  /\ presenceMap[u] # NoEntry
  /\ normalizePackage(presenceMap[u].package) = pkg
  /\ clock.now - presenceMap[u].lastSeen <= PRESENCE_TTL_MS

C6_DisconnectEndsSession ==
  [][\A s \in SocketIds, e \in UserIds :
       (s \in sockets /\ s \notin sockets' /\ ActiveSession(e)) =>
         /\ s = evaluatorSessions[e].clientSocketId =>
              /\ \E t \in sockets' : /\ socketProps[t].userId = e
                                      /\ SessionEnded(t) \in emitted'
              /\ evaluatorSessions'[e] = NoSession
         /\ (socketProps[s].userId = e /\ socketProps[s].role = "evaluator") =>
              /\ SessionEnded(evaluatorSessions[e].clientSocketId) \in emitted'
              /\ evaluatorSessions'[e] = NoSession
    ]_vars

\* C10: start_session allocates a sessionId and sends session_started to the
\* requester and to the target client's live connection of the same package;
\* a session record exists only as a pairing with such a live connection;
\* no connection of another package is notified.
C10_StartSessionPairsLiveClient ==
  relayLast.event = "start_session" =>
    LET s == relayLast.socket
        e == socketProps[s].userId
        sess == evaluatorSessions[e]
        started(t) == \E m \in emitted : /\ m.to = t /\ m.event = "session_started"
                                         /\ m.payload.sessionId = sess.sessionId
    IN /\ started(s)
       /\ sess # NoSession =>
            /\ sess.clientSocketId \in sockets
            /\ socketProps[sess.clientSocketId].userId = relayLast.clientId
            /\ socketProps[sess.clientSocketId].role = "client"
            /\ started(sess.clientSocketId)
       /\ \A m \in emitted : m.event = "session_started" =>
            socketProps[m.to].package = socketProps[s].package

\* C11: the relay forwards an image_ack only to the connection that sent the
\* acknowledged image_update, also when several evaluators have a session
\* record naming the same client.
C11_AckToOriginator ==
  relayLast.event = "image_ack" =>
    \A m \in emitted : m.event = "image_ack" => m.to = relayLast.origin

ClientRejoined(e) ==
  /\ pairing[e].lost
  /\ pairing[e].socket \in sockets

\* C31: after the client of an active session has lost its connection, has
\* reconnected and has registered again, an image_update of the paired
\* evaluator is forwarded to the client's new connection.
C31_ForwardedAfterClientRejoined ==
  relayLast.event = "image_update" =>
    \A e \in UserIds :
      socketProps[relayLast.socket].userId = e /\ ClientRejoined(e) =>
        \E m \in emitted : m.event = "image_update" /\ m.to = pairing[e].socket

\* C35: a client is the target of at most one session record: no two
\* records of evaluatorSessions name the same client connection.
C35_OneSessionPerClient ==
  \A e, f \in UserIds :
    (/\ e # f
     /\ evaluatorSessions[e] # NoSession
     /\ evaluatorSessions[f] # NoSession
     /\ evaluatorSessions[e].clientSocketId # NoSocket)
    => evaluatorSessions[e].clientSocketId # evaluatorSessions[f].clientSocketId

\* the step handled event, sent on connection s by evaluator e
RelayHandled(event, s, e) ==
  /\ relayLast'.event = event
  /\ relayLast'.socket = s
  /\ socketProps[s].userId = e

\* C36: on an evaluator's end_session the client connection of its session
\* record is sent session_ended and the record is removed; an image_update
\* that the evaluator sends afterwards is forwarded to no one until it
\* starts a session again.
C36_EndSessionStopsForwarding ==
  [][\A s \in SocketIds, e \in UserIds :
       /\ RelayHandled("end_session", s, e) =>
            /\ evaluatorSessions[e].clientSocketId \in sockets =>
                  SessionEnded(evaluatorSessions[e].clientSocketId) \in emitted'
            /\ evaluatorSessions'[e] = NoSession
       /\ (RelayHandled("image_update", s, e) /\ pairing[e].clientId = NoUser) =>
            emitted' = {}
    ]_vars

\* evaluator1 ended its session with the client by end_session, the client
\* is still connected, and the image_update evaluator1 sent afterwards was
\* forwarded to no one
C36_Witness ==
  /\ relayLast.event = "image_update"
  /\ socketProps[relayLast.socket].userId = "evaluator1"
  /\ pairing["evaluator1"].ended
  /\ LiveClient("client1", socketProps[relayLast.socket].package)
  /\ emitted = {}

\* ------------------------------------------------------------------------
\* Properties of the adapters
\* ------------------------------------------------------------------------
\* C5: the promise returned by startSession is eventually resolved in every
\* execution: also when the relay sends no session_started, when the
\* connection drops or disconnect() is called while the call is pending.
C5_StartSessionResolves ==
  (sioObs.pending > 0) ~> (sioObs.pending = 0)

\* C4: each call of sendImageUpdate increases exactly one of
\* successfulMessages and failedMessages by exactly one, in every state of
\* the adapter (wrong role, no data channel, channel not yet open, open).
C4_EveryCallCounted ==
  [][rtcObs'.sendCalls = rtcObs.sendCalls + 1 =>
       \/ /\ rtc'.metrics.successfulMessages = rtc.metrics.successfulMessages + 1
          /\ rtc'.metrics.failedMessages = rtc.metrics.failedMessages
       \/ /\ rtc'.metrics.successfulMessages = rtc.metrics.successfulMessages
          /\ rtc'.metrics.failedMessages = rtc.metrics.failedMessages + 1
    ]_vars

\* the candidates passed to addIceCandidate on the current peer connection
Applied == IF rtc.pc = NoPeer THEN {} ELSE rtcEnv.peers[rtc.pc].applied

\* C7: on both sides every ICE candidate received while there is no remote
\* description is buffered, and is passed to addIceCandidate once the remote
\* description has been set: no candidate received in the current handshake
\* is dropped, and none stays buffered once the remote description is set
\* and the chain that sets it has ended.
C7_CandidatesBufferedThenApplied ==
  /\ rtcObs.received \subseteq Range(rtc.pendingIceCandidates) \cup Applied
  /\ (/\ rtc.pc # NoPeer
      /\ rtcEnv.peers[rtc.pc].remoteDescription
      /\ rtcEnv.ops = {})
       => rtc.pendingIceCandidates = <<>>

ImagesSent == {o \in rtcObs.emitted : o.kind = "image"}

\* C8: when the evaluator has called sendImageUpdate during the session
\* while its data channel was not yet open, the step in which that channel
\* opens transmits one image payload, and it carries the imageIndex of the
\* most recent call.
C8_LatestImageSentOnOpen ==
  [][\A p \in Peers :
       (/\ rtcEnv.peers[p].channel = "connecting"
        /\ rtcEnv'.peers[p].channel = "open"
        /\ p = rtc.dataChannel
        /\ rtc.role = "evaluator"
        /\ rtcObs.latest # NoImage)
       => ImagesSent' = {[kind |-> "image", channel |-> p,
                          imageIndex |-> rtcObs.latest]}
    ]_vars

\* the channel has just opened after two calls with different indices made
\* while it was connecting, and the image of the second call was sent
C8_Witness ==
  /\ rtc.role = "evaluator"
  /\ rtc.dataChannel # NoPeer
  /\ rtcEnv.peers[rtc.dataChannel].channel = "open"
  /\ rtcObs.latest = 1
  /\ rtcObs.earlier = {0}
  /\ ImagesSent = {[kind |-> "image", channel |-> rtc.dataChannel, imageIndex |-> 1]}
  /\ rtc.metrics = [successfulMessages |-> 1, failedMessages |-> 0]

\* the sockets of the adapter that are alive with their handlers attached
LiveSockets ==
  (IF sio.socket = "null" THEN 0 ELSE 1)
  + sioNet.abandoned.connecting + sioNet.abandoned.connected

\* C13: after any sequence of connect and disconnect calls, also connect
\* called again before an earlier connect has completed, the adapter owns at
\* most one live socket whose handlers can still fire.
C13_AtMostOneLiveChannel == LiveSockets <= 1

\* C14: when disconnect() has returned, the adapter holds no channel, no
\* registered callback and no session state.
C14_DisconnectClearsAll ==
  sioObs.event = "disconnect()" =>
    /\ LiveSockets = 0
    /\ sio.callbacks = NoCallbacks
    /\ sio.sessionId = 0 /\ sio.clientId = NULL

\* the step handled the 'close' event of channel p
CloseEvent(p) ==
  [kind |-> "event", name |-> "close", channel |-> p] \in rtcObs.emitted

\* the callbacks of a type that the step invoked
Invoked(type) ==
  {o.callback : o \in {i \in rtcObs.emitted : i.kind = "invoke" /\ i.type = type}}

\* the fields closePeerConnection resets
PeerStateCleared ==
  /\ rtc.pc = NoPeer
  /\ rtc.dataChannel = NoPeer
  /\ rtc.dataChannelListeners = NoPeer
  /\ rtc.pendingImage = NoImage
  /\ rtc.pendingIceCandidates = <<>>

\* C12: when the data channel of the session closes, on the evaluator's side
\* as on the client's, the peer connection state is cleared; when the adapter
\* learns of it by the channel's 'close' event (the other party closed it, or
\* the connection failed), the session is ended: remoteUserId is reset and
\* every session-end callback registered is invoked.
C12_ChannelCloseEndsSession ==
  [][\A p \in Peers :
       (/\ p = rtc.dataChannel
        /\ rtcEnv.peers[p].channel \in {"connecting", "open"}
        /\ rtcEnv'.peers[p].channel = "closed")
       => /\ PeerStateCleared'
          /\ rtcEnv'.peers[p].state = "closed"
          /\ CloseEvent(p)' => /\ rtc'.remoteUserId = NULL
                               /\ Invoked("sessionEnd")' = rtc.callbacks["sessionEnd"]
    ]_vars

\* C12 as stated: whenever the data channel of the session closes, whichever
\* party closed it, the state is cleared and the session-end callbacks
\* registered on this side are invoked (in that step, or the relay was sent
\* end_session, whose session_ended reply invokes them).
C12_EveryCloseEndsSession ==
  [][\A p \in Peers :
       (/\ p = rtc.dataChannel
        /\ rtcEnv.peers[p].channel \in {"connecting", "open"}
        /\ rtcEnv'.peers[p].channel = "closed")
       => /\ PeerStateCleared'
          /\ \/ Invoked("sessionEnd")' = rtc'.callbacks["sessionEnd"]
             \/ [kind |-> "emit", event |-> "end_session"] \in rtcObs'.emitted
    ]_vars

\* the data channel of the client has just reported 'close': the state is
\* cleared and both registered session-end callbacks were invoked
C12_Witness ==
  /\ rtc.role = "client"
  /\ \E p \in Peers : /\ CloseEvent(p)
                       /\ rtcEnv.peers[p].listeners = "none"
                       /\ rtcEnv.peers[p].state = "closed"
                       /\ rtcEnv.peers[p].remoteDescription
                       /\ rtcEnv.peers[p].localDescription
  /\ PeerStateCleared
  /\ Invoked("sessionEnd") = {1, 2}

\* the body has the field and it is not empty
Has(v) == v # Undefined /\ v # NULL /\ v # ""

\* C19: a submission with neither signedUrl nor audio payload (absent, null
\* or empty) is answered 400 and changes nothing in the store, and every
\* record in the store has at least one of signedUrl and audioBase64.
C19_StoredSegmentsHavePayload ==
  /\ (segLast.posts > 0 /\ ~Has(segLast.body.signedUrl) /\ ~Has(segLast.body.audioBase64))
       => segLast.status = 400
  /\ \A k \in DOMAIN storedSegmentsByKey :
       \/ storedSegmentsByKey[k].signedUrl # NULL
       \/ storedSegmentsByKey[k].audioBase64 # NULL

\* the records of the store for the same evaluator, client and image
SameImage(store, segment) ==
  {k \in DOMAIN store : /\ store[k].evaluatorId = segment.evaluatorId
                        /\ store[k].clientId = segment.clientId
                        /\ store[k].imageIndex = segment.imageIndex}

\* C20: the store never holds two records for the same (evaluatorId,
\* clientId, imageIndex); an accepted submission is stored under the
\* segmentId it returns, which is evaluatorId_clientId_imageIndex when the
\* body carries the three values; and an accepted submission for an image
\* that has a record replaces it, the number of records unchanged.
C20_OneRecordPerImage ==
  [][(segLast'.posts # segLast.posts /\ segLast'.status = 200) =>
       LET body == segLast'.body
           id == segLast'.segmentId
           new == storedSegmentsByKey'[id]
       IN /\ id \in DOMAIN storedSegmentsByKey'
          /\ new.receivedAt = segLast'.posts
          /\ (Has(body.evaluatorId) /\ Has(body.clientId) /\ body.imageIndex >= 0)
               => /\ id = body.evaluatorId \o "_" \o body.clientId \o "_"
                            \o ToString(body.imageIndex)
                  /\ new.evaluatorId = body.evaluatorId
                  /\ new.clientId = body.clientId
                  /\ new.imageIndex = body.imageIndex
          /\ \A k \in DOMAIN storedSegmentsByKey' :
               SameImage(storedSegmentsByKey', storedSegmentsByKey'[k]) = {k}
          /\ SameImage(storedSegmentsByKey, new) # {}
               => Cardinality(DOMAIN storedSegmentsByKey')
                    = Cardinality(DOMAIN storedSegmentsByKey)
    ]_vars

\* two submissions for evaluator1, client1 and image 0 were accepted, the
\* first with audio (its file was written), the second with a signedUrl only:
\* the store holds one record, the second one, under evaluator1_client1_0
C20_Witness ==
  /\ segLast.posts = 2 /\ segLast.status = 200
  /\ segLast.segmentId = "evaluator1_client1_0"
  /\ DOMAIN storedSegmentsByKey = {"evaluator1_client1_0"}
  /\ storedSegmentsByKey["evaluator1_client1_0"].receivedAt = 2
  /\ storedSegmentsByKey["evaluator1_client1_0"].audioBase64 = NULL
  /\ recordings = {"segment_image_0_client1.m4a"}

\* the step was a call of endSession()
EndSessionReturned ==
  [kind |-> "call", name |-> "endSession()"] \in rtcObs.emitted

Failures == {o \in rtcObs.emitted : o.kind = "failure"}

\* C16: a step in which an operation of the SDP negotiation rejects
\* (createOffer, setLocalDescription, setRemoteDescription of the offer or of
\* the answer, createAnswer) increases failedMessages by one, and every
\* startSession promise that is pending before it is resolved by it or is
\* still pending with its timeout armed, which resolves it.
C16_FailureCountedPromiseResolves ==
  [][Failures' # {} =>
       /\ rtc'.metrics.failedMessages = rtc.metrics.failedMessages + 1
       /\ \A n \in rtcEnv.pending :
            n \in rtcEnv'.pending => [call |-> n, kind |-> "timeout"] \in rtcEnv'.timers
    ]_vars

\* setRemoteDescription of the answer has just rejected on the evaluator while
\* the promise of startSession was pending: the failure is counted and the
\* promise is still to be resolved by its timeout
C16_Witness ==
  /\ [kind |-> "failure", chain |-> "remote", step |-> "setRemoteDescription"] \in Failures
  /\ rtc.role = "evaluator"
  /\ rtc.metrics.failedMessages = 1
  /\ rtcEnv.pending # {}
  /\ \A n \in rtcEnv.pending : [call |-> n, kind |-> "timeout"] \in rtcEnv.timers

\* C17: on a connection that the socket re-established, the relay is sent
\* nothing before the register message.
C17_RegisterFirstAfterReconnect ==
  rtcEnv.reconnected => rtcEnv.anonymous = {}

\* C9: registering a callback replaces the one registered before: the
\* adapter never holds more than one callback per event type, and an event
\* invokes only the callback registered last.
C9_RegistrationReplaces ==
  /\ \A t \in EventTypes : Cardinality(rtc.callbacks[t]) <= 1
  /\ \A o \in rtcObs.emitted :
       o.kind = "invoke" => o.callback = Cardinality(rtc.callbacks[o.type])

\* C26: the session-end callbacks of the client are invoked once for one end
\* of a session, whichever of the close event of the data channel and the
\* relay's session_ended comes first: no step invokes a callback that was
\* invoked already since the session began.
C26_SessionEndCallbacksOnce ==
  [][rtc.role = "client" => Invoked("sessionEnd")' \cap rtcObs.ended = {}]_vars

\* the step handled a ready message that arrived on channel p
ReadyReceived(p) ==
  [kind |-> "event", name |-> "message", type |-> "ready", channel |-> p]
    \in rtcObs.emitted

\* the step sent ready on the adapter's data channel
ReadySent ==
  [kind |-> "ready", channel |-> rtc.dataChannel] \in rtcObs.emitted

\* C34: when the data channel of the client opens, the client sends ready;
\* when the evaluator receives ready on its open data channel and
\* sendImageUpdate has been called in the session, it sends an image with the
\* index of the latest of these calls; whatever is sent in answer to a ready
\* carries that index, never that of a call made before the session.
C34_ReadyResendsCurrentImage ==
  [][/\ \A p \in Peers :
          (/\ rtc.role = "client" /\ rtc.dataChannel = p
           /\ rtcEnv.peers[p].channel = "connecting"
           /\ rtcEnv'.peers[p].channel = "open") => ReadySent'
     /\ \A p \in Peers :
          ReadyReceived(p)' =>
            /\ (p = rtc.dataChannel /\ rtcObs.current # NoImage) =>
                  \E o \in ImagesSent' : o.channel = p
            /\ \A o \in ImagesSent' : /\ rtcObs.current # NoImage
                                      /\ o.imageIndex = rtcObs.current
                                      /\ o.channel = rtc.dataChannel
    ]_vars

\* the evaluator has called sendImageUpdate twice, with index 1 in the
\* latest call of the session; the ready that arrived on its data channel
\* is answered with image 1
C34_Witness ==
  /\ rtc.role = "evaluator"
  /\ ReadyReceived(rtc.dataChannel)
  /\ rtcObs.sendCalls = 2
  /\ rtcObs.current = 1
  /\ ImagesSent = {[kind |-> "image", channel |-> rtc.dataChannel, imageIndex |-> 1]}

\* ------------------------------------------------------------------------
\* Properties of the latency fields
\* ------------------------------------------------------------------------
\* sample k: what ack k tells
Sample(k) == acks[k].receivedAt - acks[k].sentAt

RECURSIVE SampleSum(_)
SampleSum(n) == IF n = 0 THEN 0 ELSE SampleSum(n - 1) + Sample(n)

\* the fields other than the average are as the samples make them
CountLastMinMax ==
  LET N == Len(acks) IN
  /\ latency.sampleCount = N
  /\ N = 0 => latency = DefaultLatency
  /\ N > 0 => /\ latency.lastLatencyMs = Sample(N)
              /\ \E k \in 1..N : latency.minLatencyMs = Sample(k)
              /\ \A k \in 1..N : latency.minLatencyMs <= Sample(k)
              /\ \A k \in 1..N : latency.maxLatencyMs >= Sample(k)
              /\ \/ latency.maxLatencyMs = 0
                 \/ \E k \in 1..N : latency.maxLatencyMs = Sample(k)
              /\ latency.maxLatencyMs >= 0

\* avg * N, computed as the program would, is the sum of the samples
AverageExact ==
  Times(latency.avgLatencyMs, Len(acks)) = Num(SampleSum(Len(acks)))

\* 2^-30 is above the distance of avg * N from the sum of the samples
AverageWithinTolerance ==
  LET d == Sum(Product(latency.avgLatencyMs, Len(acks)), Num(-SampleSum(Len(acks))))
  IN d.bits = <<>> \/ BitLength(d.bits) + d.exp <= -30

LiveWebSockets ==
  {s \in WebSocketIds : wsEnv.sockets[s].readyState \in {"connecting", "open"}}

\* C23: in every reachable state the service has at most one live WebSocket
\* whose handlers can change its state.
C23_AtMostOneLiveWebSocket == Cardinality(LiveWebSockets) <= 1

\* a reconnection is attempted in the step
Attempted == wsEnv'.armed > wsEnv.armed

\* no WebSocket is connecting, open or about to deliver its close event,
\* and no reconnect timer is pending
Quiet ==
  /\ \A s \in WebSocketIds : wsEnv.sockets[s].readyState \in {"none", "closed"}
  /\ wsEnv.timers = {}

\* C24 as stated: a reconnection is attempted only after a close, with
\* autoReconnect enabled and fewer than maxReconnectAttempts attempts made
\* since the last successful open; the counter never exceeds
\* maxReconnectAttempts; when every attempt has failed the service has
\* stopped retrying and is disconnected.
C24_ReconnectWithinAttemptsSinceOpen ==
  [][/\ Attempted => /\ wsObs'.last = "close"
                     /\ ws.options.autoReconnect
                     /\ wsObs.sinceOpen < ws.options.maxReconnectAttempts
     /\ ws'.reconnectAttempts <= ws'.options.maxReconnectAttempts
     /\ Quiet' => ws'.connectionStatus = "disconnected"
    ]_vars

\* C24, amended: a reconnection is attempted only after a close, with
\* autoReconnect enabled and fewer than maxReconnectAttempts attempts made
\* since the last successful open or disconnect(); an attempt never takes
\* the counter above the maxReconnectAttempts in force; when every attempt
\* has failed the service has stopped retrying and is disconnected.
C24_ReconnectWithinAttempts ==
  [][/\ Attempted => /\ wsObs'.last = "close"
                     /\ ws.options.autoReconnect
                     /\ wsObs.sinceReset < ws.options.maxReconnectAttempts
                     /\ ws'.reconnectAttempts = wsObs'.sinceReset
                     /\ ws'.reconnectAttempts <= ws'.options.maxReconnectAttempts
     /\ Quiet' => ws'.connectionStatus = "disconnected"
    ]_vars

\* two reconnections were attempted and failed, the second was the last
\* that maxReconnectAttempts allows: the service is disconnected, with no
\* socket and no timer left
C24_Witness ==
  /\ Quiet
  /\ wsObs.last = "close"
  /\ ws.options.autoReconnect
  /\ ws.options.maxReconnectAttempts = 2
  /\ ws.reconnectAttempts = 2
  /\ wsEnv.created = 3
  /\ ws.connectionStatus = "disconnected"

\* C30: after disconnect(), and until the application calls connect(), the
\* service is DISCONNECTED and creates no WebSocket.
C30_StaysDisconnected ==
  [][wsObs.disconnected /\ wsObs'.disconnected =>
       /\ ws'.connectionStatus = "disconnected"
       /\ wsEnv'.created = wsEnv.created
    ]_vars


\* ------------------------------------------------------------------------
\* Properties of the MQTT adapters
\* ------------------------------------------------------------------------
\* the client has just handled an image message that its evaluator published
\* in a session with this client that the evaluator has not ended
ImageHandledInSession ==
  /\ mqttObs.handled.topic = "image"
  /\ mqttObs.handled.payload.json
  /\ mqtt[mqttObs.handled.from].currentClientId = mqttObs.handled.to

\* C37: for each image message the client receives during a session, in
\* whatever order and however often the broker delivers the start, image and
\* end messages, the client publishes one acknowledgement, to the ack topic
\* of the evaluator that sent the image
C37_OneAckToSender ==
  ImageHandledInSession => mqttObs.acks = {mqttObs.handled.from}

\* C38: a malformed inbound payload increases failedMessages of the adapter
\* that receives it by exactly one and changes nothing else of it: not
\* successfulMessages, not the latency samples, not the session it is in.
\* Stated for the MQTT adapter, both roles
C38_MalformedCountsOneFailure ==
  [][mqttObs'.handled.topic # "none" /\ ~mqttObs'.handled.payload.json =>
       mqtt' = [mqtt EXCEPT ![mqttObs'.handled.to].metrics.failedMessages = @ + 1]
    ]_vars

====
